---- MODULE Spec2Model ----
(***************************************************************************)
(* Tunnel AI: the workflow engine (orchestrator/test_workflow.py), the     *)
(* execution adapter (agents/executor.py), the healing strategist          *)
(* (agents/healer.py) and the code synthesizer's fallback                  *)
(* (agents/generator.py), as one state machine.                            *)
(*                                                                         *)
(* Python strings are sequences of one-character strings, so that lower()  *)
(* and the substring test `in` are computed, not assumed.  Optional[T] is  *)
(* a sequence of length at most one: None is <<>>, a value v is <<v>>.     *)
(***************************************************************************)
EXTENDS Integers, Sequences, FiniteSets, TLC

(* ------------------------------ bounds --------------------------------- *)
\* Cap of the history counters exec_count and heal_count (guards only).
MaxAttempts == 5
\* Failures of the remote browser and of the session provider injected into
\* one run (guards only).
MaxFaults == 1
\* Page operations made by the test code of one interleaved run.
MaxSteps == 2
\* Step descriptors, and assertion descriptors, in one model output.
MaxDescriptors == 2
\* Lines in a test code handed to a repair transform.
MaxLines == 3
\* Steps, and assertions, in a plan handed to the fallback assembly.
MaxPlanItems == 2
\* Elements in a list of a PageAnalysis handed to the formatter.
MaxElements == 2

(* ------------------------- Optional[T] values -------------------------- *)
None == <<>>
Some(v) == <<v>>
IsNone(o) == Len(o) = 0
Get(o) == o[1]

(* ------------------------------ strings -------------------------------- *)
\* str.lower(), character by character (ASCII letters).
ToLowerChar(c) ==
  CASE c = "A" -> "a"
    [] c = "B" -> "b"
    [] c = "C" -> "c"
    [] c = "D" -> "d"
    [] c = "E" -> "e"
    [] c = "F" -> "f"
    [] c = "G" -> "g"
    [] c = "H" -> "h"
    [] c = "I" -> "i"
    [] c = "J" -> "j"
    [] c = "K" -> "k"
    [] c = "L" -> "l"
    [] c = "M" -> "m"
    [] c = "N" -> "n"
    [] c = "O" -> "o"
    [] c = "P" -> "p"
    [] c = "Q" -> "q"
    [] c = "R" -> "r"
    [] c = "S" -> "s"
    [] c = "T" -> "t"
    [] c = "U" -> "u"
    [] c = "V" -> "v"
    [] c = "W" -> "w"
    [] c = "X" -> "x"
    [] c = "Y" -> "y"
    [] c = "Z" -> "z"
    [] OTHER -> c
ToLower(s) == [i \in 1..Len(s) |-> ToLowerChar(s[i])]

\* Python `needle in hay` for a non-empty needle.
Contains(hay, needle) ==
  \E i \in 1..(Len(hay) - Len(needle) + 1) :
     SubSeq(hay, i, i + Len(needle) - 1) = needle

\* Python truthiness of an Optional[str]: None and "" are falsy.
Truthy(o) == ~IsNone(o) /\ Len(Get(o)) > 0

\* The keywords of SelfHealingAgent._identify_error_type and the marker
\* searched by _fix_navigation_error.
KwSelector == <<"s","e","l","e","c","t","o","r">>
KwElement == <<"e","l","e","m","e","n","t">>
KwTimeout == <<"t","i","m","e","o","u","t">>
KwNavigation == <<"n","a","v","i","g","a","t","i","o","n">>
KwGoto == <<"g","o","t","o">>

\* Texts of the exceptions the model raises (str(e)).
TxtTimeoutSelector == <<"T","i","m","e","o","u","t"," ","3","0","0","0","0","m","s"," ","e","x","c","e","e","d","e","d"," ","w","a","i","t","i","n","g"," ","f","o","r"," ","s","e","l","e","c","t","o","r"," ","'","#","s","u","b","m","i","t","'">>
TxtTimeoutUpper == <<"T","I","M","E","O","U","T"," ","e","x","c","e","e","d","e","d">>
TxtElementGone == <<"E","l","e","m","e","n","t"," ","g","o","n","e">>
TxtNavigationTimeout == <<"N","a","v","i","g","a","t","i","o","n"," ","t","i","m","e","o","u","t">>
TxtGotoFailed == <<"g","o","t","o"," ","f","a","i","l","e","d">>
TxtBoom == <<"b","o","o","m">>
TxtEmpty == <<>>
TxtNoneSplit == <<"'","N","o","n","e","T","y","p","e","'"," ","o","b","j","e","c","t"," ","h","a","s"," ","n","o"," ","a","t","t","r","i","b","u","t","e"," ","'","s","p","l","i","t","'">>
TxtInvalidSyntax == <<"i","n","v","a","l","i","d"," ","s","y","n","t","a","x"," ","(","<","s","t","r","i","n","g",">",","," ","l","i","n","e"," ","2",")">>
TxtIndentExpected == <<"e","x","p","e","c","t","e","d"," ","a","n"," ","i","n","d","e","n","t","e","d"," ","b","l","o","c","k"," ","(","<","s","t","r","i","n","g",">",","," ","l","i","n","e"," ","1",")">>
TxtNoAttribute == <<"'","P","a","g","e","'"," ","o","b","j","e","c","t"," ","h","a","s"," ","n","o"," ","a","t","t","r","i","b","u","t","e"," ","'","w","a","i","t","F","o","r","L","o","a","d","S","t","a","t","e","'">>
TxtNameTimeout == <<"n","a","m","e"," ","'","t","i","m","e","o","u","t","'"," ","i","s"," ","n","o","t"," ","d","e","f","i","n","e","d">>
TxtWebSocket == <<"W","e","b","S","o","c","k","e","t"," ","e","r","r","o","r">>
TxtNoneName == <<"'","N","o","n","e","T","y","p","e","'"," ","o","b","j","e","c","t"," ","h","a","s"," ","n","o"," ","a","t","t","r","i","b","u","t","e"," ","'","n","a","m","e","'">>
TxtValidation == <<"v","a","l","i","d","a","t","i","o","n"," ","e","r","r","o","r"," ","f","o","r"," ","T","e","s","t","R","e","s","u","l","t">>
TxtNoResult == <<"W","o","r","k","f","l","o","w"," ","c","o","m","p","l","e","t","e","d"," ","w","i","t","h","o","u","t"," ","p","r","o","d","u","c","i","n","g"," ","a"," ","r","e","s","u","l","t">>

\* Selectors, urls and other literals appearing in plans and code.
SelSubmit == <<"#","s","u","b","m","i","t">>
SelUserName == <<".","u","s","e","r","-","n","a","m","e">>
UrlExample == <<"h","t","t","p","s",":","/","/","e","x","a","m","p","l","e",".","c","o","m">>
TextEq == <<"t","e","x","t","=">>
StNetworkIdle == <<"n","e","t","w","o","r","k","i","d","l","e">>
StDomContentLoaded == <<"d","o","m","c","o","n","t","e","n","t","l","o","a","d","e","d">>
ValAlice == <<"a","l","i","c","e">>
TxtNone == <<"N","o","n","e">>
(* --------------------------- code artifacts ---------------------------- *)
\* A code artifact is a sequence of lines.  A line keeps what the healer's
\* text transforms and Python's exec() look at: the page call it makes, its
\* quoted arguments, the number of a `timeout: N` option (0: none), whether
\* the statement ends in `;` and whether the line carries a `//` comment.
Line(call, args, semi, comment) ==
  [call |-> call, args |-> args, timeout |-> 0, semi |-> semi, comment |-> comment]

CommentLine == Line("comment", <<>>, FALSE, TRUE)
WaitNetworkIdle(comment) == Line("waitForLoadState", <<StNetworkIdle>>, TRUE, comment)
WaitDomContentLoaded == Line("waitForLoadState", <<StDomContentLoaded>>, TRUE, FALSE)

\* str(x) inside an f-string, for an Optional[str] field.
Fmt(o) == IF IsNone(o) THEN TxtNone ELSE Get(o)

\* templates.get_step_template: one line per step, by action kind.
get_step_template(step) ==
  CASE step.action = "navigate" -> Line("goto", <<Fmt(step.value)>>, TRUE, TRUE)
    [] step.action = "click" -> Line("click", <<Fmt(step.selector)>>, TRUE, TRUE)
    [] step.action = "type" -> Line("fill", <<Fmt(step.selector), Fmt(step.value)>>, TRUE, TRUE)
    [] step.action = "wait" -> Line("wait_for_selector", <<Fmt(step.selector)>>, TRUE, TRUE)
    [] step.action = "hover" -> Line("hover", <<Fmt(step.selector)>>, TRUE, TRUE)
    [] step.action = "screenshot" -> Line("screenshot", <<>>, TRUE, TRUE)
    [] step.action = "select" ->
         Line("select_option", <<Fmt(step.selector), Fmt(step.value)>>, TRUE, TRUE)
    [] step.action = "scroll" -> Line("evaluate", <<>>, TRUE, TRUE)
    [] OTHER -> CommentLine

\* The assertion lines of _generate_fallback_code: only visible and text
\* assertions that carry a selector are emitted.
AssertionLines(assertions) ==
  LET keep == SelectSeq(assertions,
                 LAMBDA a : Truthy(a.selector) /\ a.type \in {"visible", "text"})
  IN [i \in 1..Len(keep) |-> Line("expect", <<Get(keep[i].selector)>>, TRUE, FALSE)]

\* TestGenerationAgent._generate_fallback_code.
_generate_fallback_code(plan) ==
  <<CommentLine, CommentLine,
    Line("goto", <<plan.url>>, TRUE, FALSE),
    WaitNetworkIdle(FALSE)>>
  \o [i \in 1..Len(plan.steps) |-> get_step_template(plan.steps[i])]
  \o AssertionLines(plan.assertions)

(* ------------------------- healing strategist -------------------------- *)
\* The timeout keyword is tested before the selector keywords.
_identify_error_type_TimeoutFirst(error) ==
  LET error_lower == ToLower(error) IN
  IF Contains(error_lower, KwTimeout) THEN "timeout"
  ELSE IF Contains(error_lower, KwSelector) \/ Contains(error_lower, KwElement)
    THEN "selector"
  ELSE IF Contains(error_lower, KwNavigation) \/ Contains(error_lower, KwGoto)
    THEN "navigation"
  ELSE "general"

\* The keywords are searched in the text as it is, without lower().
_identify_error_type_CaseSensitive(error) ==
  IF Contains(error, KwSelector) \/ Contains(error, KwElement) THEN "selector"
  ELSE IF Contains(error, KwTimeout) THEN "timeout"
  ELSE IF Contains(error, KwNavigation) \/ Contains(error, KwGoto) THEN "navigation"
  ELSE "general"

\* SelfHealingAgent._identify_error_type.
_identify_error_type(error) ==
  LET error_lower == ToLower(error) IN
  IF Contains(error_lower, KwSelector) \/ Contains(error_lower, KwElement)
    THEN "selector"
  ELSE IF Contains(error_lower, KwTimeout) THEN "timeout"
  ELSE IF Contains(error_lower, KwNavigation) \/ Contains(error_lower, KwGoto)
    THEN "navigation"
  ELSE "general"

\* re.search(r"'([^']+)'", error): the leftmost quote that is followed by at
\* least one non-quote character and then a quote.  <<>> when there is none.
QuoteStarts(error) ==
  {i \in 1..Len(error) :
     /\ error[i] = "'"
     /\ \E j \in (i + 2)..Len(error) :
          /\ error[j] = "'"
          /\ \A k \in (i + 1)..(j - 1) : error[k] # "'"}

Minimum(S) == CHOOSE x \in S : \A y \in S : x <= y

selector_match(error) ==
  IF QuoteStarts(error) = {} THEN None
  ELSE LET i == Minimum(QuoteStarts(error))
           j == Minimum({k \in (i + 1)..Len(error) : error[k] = "'"})
       IN Some(SubSeq(error, i + 1, j - 1))

\* old_selector.replace("#", "").replace(".", "").replace("-", " ")
element_text(old) ==
  LET kept == SelectSeq(old, LAMBDA c : c # "#" /\ c # ".")
  IN [i \in 1..Len(kept) |-> IF kept[i] = "-" THEN " " ELSE kept[i]]

\* test_code.replace(f"'{old}'", f"'{new}'") on every quoted argument.
ReplaceQuoted(code, old, new) ==
  [i \in 1..Len(code) |->
     [code[i] EXCEPT !.args =
        [k \in 1..Len(code[i].args) |->
           IF code[i].args[k] = old THEN new ELSE code[i].args[k]]]]

RECURSIVE WaitBeforeClickFill(_)
\* re.sub(r"await page\.(click|fill)\(", "...waitForLoadState('domcontentloaded');\n...")
WaitBeforeClickFill(code) ==
  IF code = <<>> THEN <<>>
  ELSE (IF Head(code).call \in {"click", "fill"}
          THEN <<WaitDomContentLoaded, Head(code)>>
          ELSE <<Head(code)>>)
       \o WaitBeforeClickFill(Tail(code))

\* SelfHealingAgent._apply_fallback_selector_fix, on a str.
_apply_fallback_selector_fix(test_code, error) ==
  LET m == selector_match(error)
      replaced ==
        IF ~IsNone(m) /\ Get(m)[1] \in {"#", "."}
          THEN ReplaceQuoted(test_code, Get(m), TextEq \o element_text(Get(m)))
          ELSE test_code
  IN WaitBeforeClickFill(replaced)

RECURSIVE WaitAfterGoto(_)
\* re.sub(r"await page\.goto\([^)]+\);", "\g<0>\nawait page.waitForLoadState('networkidle');"):
\* the wait is inserted right after the `;`, so a trailing comment of the
\* goto line ends up behind the inserted call.
WaitAfterGoto(code) ==
  IF code = <<>> THEN <<>>
  ELSE (IF Head(code).call = "goto" /\ Head(code).semi
          THEN <<[Head(code) EXCEPT !.comment = FALSE],
                 WaitNetworkIdle(Head(code).comment)>>
          ELSE <<Head(code)>>)
       \o WaitAfterGoto(Tail(code))

\* The doubling of line 245: int(m.group(1)) * 2.
DoubleTimeout(t) == t * 2

\* SelfHealingAgent._apply_fallback_timeout_fix, on a str.
_apply_fallback_timeout_fix(test_code) ==
  WaitAfterGoto([i \in 1..Len(test_code) |->
     [test_code[i] EXCEPT !.timeout = DoubleTimeout(test_code[i].timeout)]])

\* "waitForLoadState" in code
HasWaitForLoadState(code) ==
  \E i \in 1..Len(code) : code[i].call = "waitForLoadState"

\* SelfHealingAgent._fix_navigation_error, on a str: no model call; both
\* replace() calls substitute a text by itself.
_fix_navigation_error(test_code) ==
  IF ~HasWaitForLoadState(test_code)
    THEN Append(test_code, WaitNetworkIdle(FALSE))
    ELSE test_code

\* The model's reply to a repair prompt: the call raises, or returns
\* response.content (possibly the empty string).
PyCode == <<Line("goto", <<UrlExample>>, FALSE, FALSE),
            Line("click", <<SelSubmit>>, FALSE, FALSE)>>
JsCode == <<Line("goto", <<UrlExample>>, TRUE, FALSE),
            [Line("click", <<SelSubmit>>, TRUE, FALSE) EXCEPT !.timeout = 5000]>>
LLMCodes == {<<>>, PyCode, JsCode}
LLMOutcomes ==
  {[raised |-> TRUE, content |-> <<>>]}
  \cup {[raised |-> FALSE, content |-> c] : c \in LLMCodes}

\* _fix_selector_error: model call, fallback transform in the except branch.
\* The result is <<"return", code>> or <<"raise">> (the transform raises on
\* a test_code of None).
_fix_selector_error(test_code, error, llm) ==
  IF ~llm.raised THEN <<"return", Some(llm.content)>>
  ELSE IF IsNone(test_code) THEN <<"raise">>
  ELSE <<"return", Some(_apply_fallback_selector_fix(Get(test_code), error))>>

\* _fix_timeout_error.
_fix_timeout_error(test_code, llm) ==
  IF ~llm.raised THEN <<"return", Some(llm.content)>>
  ELSE IF IsNone(test_code) THEN <<"raise">>
  ELSE <<"return", Some(_apply_fallback_timeout_fix(Get(test_code)))>>

\* _general_fix: model call, the input code in the except branch.
_general_fix(test_code, llm) ==
  IF ~llm.raised THEN <<"return", Some(llm.content)>> ELSE <<"return", test_code>>

\* The strategy heal dispatches to, by error type (lines 32-39).
Strategy(error_type, test_code, error, llm) ==
  CASE error_type = "selector" -> _fix_selector_error(test_code, error, llm)
    [] error_type = "timeout" -> _fix_timeout_error(test_code, llm)
    [] error_type = "navigation" ->
         (IF IsNone(test_code) THEN <<"raise">>
          ELSE <<"return", Some(_fix_navigation_error(Get(test_code)))>>)
    [] OTHER -> _general_fix(test_code, llm)

\* What lines 29-39 of heal do for an Optional[str] error: error.lower()
\* raises AttributeError on None, otherwise the strategy returns or raises.
HealBody(test_code, error, llm) ==
  IF IsNone(error) THEN <<"raise">>
  ELSE Strategy(_identify_error_type(Get(error)), test_code, Get(error), llm)

\* The outer except of heal yields the empty string instead of the input.
heal_ReturnsEmpty(test_code, error, llm) ==
  LET r == HealBody(test_code, error, llm)
  IN IF r[1] = "return" THEN r[2] ELSE Some(<<>>)

\* SelfHealingAgent.heal: the outer except returns the input code.
heal(test_code, error, llm) ==
  LET r == HealBody(test_code, error, llm)
  IN IF r[1] = "return" THEN r[2] ELSE test_code

\* Whether heal consults the model for this error type.
CallsModel(error_type) == error_type # "navigation"

(* -------------------------- running test code -------------------------- *)
\* exec() compiles the code as the body of a Python coroutine and awaits it
\* against the page (executor.py lines 72-73).
PyCalls == {"goto", "click", "fill", "wait_for_selector", "hover"}
Runnable(line) == ~line.comment /\ line.call \in PyCalls /\ line.timeout = 0

\* What a page action of the test code can raise at run time.
RuntimeErrors ==
  {TxtTimeoutSelector, TxtTimeoutUpper, TxtElementGone, TxtNavigationTimeout,
   TxtGotoFailed, TxtBoom, TxtEmpty}

\* The outcomes of lines 62-81 for a code artifact: <<TRUE, None>> or
\* <<FALSE, Some(str(e))>>.
TestCodeOutcomes(test_code) ==
  IF IsNone(test_code) THEN {<<FALSE, Some(TxtNoneSplit)>>}
  ELSE LET code == Get(test_code)
           bad == {i \in 1..Len(code) : ~Runnable(code[i])}
       IN IF code = <<>> THEN {<<FALSE, Some(TxtIndentExpected)>>}
          ELSE IF \E i \in 1..Len(code) : code[i].comment
            THEN {<<FALSE, Some(TxtInvalidSyntax)>>}
          ELSE IF bad = {}
            THEN {<<TRUE, None>>} \cup {<<FALSE, Some(e)>> : e \in RuntimeErrors}
          ELSE LET k == Minimum(bad)
                   own == IF code[k].timeout > 0 THEN TxtNameTimeout ELSE TxtNoAttribute
               IN {<<FALSE, Some(own)>>}
                  \cup (IF k = 1 THEN {}
                        ELSE {<<FALSE, Some(e)>> : e \in RuntimeErrors})

(* ------------------------------ data model ----------------------------- *)
\* core.types.TestResult, as the constructor is called in this repository.
\* steps is a sequence of StepResult success flags.
TestResult(id, plan_id, success, steps, screenshots, video_url, error, started_at, completed_at) ==
  [id |-> id, plan_id |-> plan_id, success |-> success, steps |-> steps,
   passed_assertions |-> 0, failed_assertions |-> 0,
   screenshots |-> screenshots, video_url |-> video_url, error |-> error,
   started_at |-> started_at, completed_at |-> completed_at]

\* The validation pydantic runs in the constructor: started_at and
\* completed_at are declared `datetime`, not Optional (types.py 107-108).
ValidTestResult(r) == r.started_at # "None" /\ r.completed_at # "None"

\* Session identifiers: the caller's, and those the session provider issues.
Sid(src, n) == [src |-> src, n |-> n]
Unknown == Sid("unknown", 0)

\* core.types.TestRequest: only url and session_id are used by the engine.
Requests == {[url |-> UrlExample, session_id |-> sid] : sid \in {None, Some(Sid("caller", 1))}}

\* Plans the Plan Synthesizer can return for a request (TestPlan of types.py).
Step(action, selector, value) == [action |-> action, selector |-> selector, value |-> value]
LoginPlan(url) ==
  [id |-> Sid("plan", 1), url |-> url,
   steps |-> <<Step("type", Some(SelUserName), Some(ValAlice)),
               Step("click", Some(SelSubmit), None)>>,
   assertions |-> <<[type |-> "visible", selector |-> Some(SelSubmit)]>>]
Plans(url) == {LoginPlan(url)}

\* What planner.plan raises when the analysis or the model call fails.
PlanErrors == {TxtBoom}
\* What the remote browser and the session provider raise.
InfraErrors == {TxtTimeoutUpper}

(* --------------------------- result validator -------------------------- *)
KwNetwork == <<"n","e","t","w","o","r","k">>
KwAssertion == <<"a","s","s","e","r","t","i","o","n">>
KwElementNotFound == <<"e","l","e","m","e","n","t"," ","n","o","t"," ","f","o","u","n","d">>
KwClick == <<"c","l","i","c","k">>
KwFill == <<"f","i","l","l">>
CatTimeout == <<"T","i","m","e","o","u","t"," ","E","r","r","o","r">>
CatSelector == <<"S","e","l","e","c","t","o","r"," ","E","r","r","o","r">>
CatNavigation == <<"N","a","v","i","g","a","t","i","o","n"," ","E","r","r","o","r">>
CatNetwork == <<"N","e","t","w","o","r","k"," ","E","r","r","o","r">>
CatAssertion == <<"A","s","s","e","r","t","i","o","n"," ","F","a","i","l","e","d">>
CatElementNotFound == <<"E","l","e","m","e","n","t"," ","N","o","t"," ","F","o","u","n","d">>
CatInteraction == <<"I","n","t","e","r","a","c","t","i","o","n"," ","E","r","r","o","r">>
CatInput == <<"I","n","p","u","t"," ","E","r","r","o","r">>
CatDefault == <<"T","e","s","t"," ","E","x","e","c","u","t","i","o","n"," ","E","r","r","o","r">>
ColonSpace == <<":"," ">>

\* The selector keyword is tested before the timeout keyword.
_categorize_error_SelectorFirst(error) ==
  LET error_lower == ToLower(error) IN
  IF Contains(error_lower, KwSelector) THEN CatSelector
  ELSE IF Contains(error_lower, KwTimeout) THEN CatTimeout
  ELSE IF Contains(error_lower, KwNavigation) THEN CatNavigation
  ELSE IF Contains(error_lower, KwNetwork) THEN CatNetwork
  ELSE IF Contains(error_lower, KwAssertion) THEN CatAssertion
  ELSE IF Contains(error_lower, KwElementNotFound) THEN CatElementNotFound
  ELSE IF Contains(error_lower, KwClick) THEN CatInteraction
  ELSE IF Contains(error_lower, KwFill) THEN CatInput
  ELSE CatDefault

\* ValidationAgent._categorize_error: first keyword, in dict order.
_categorize_error(error) ==
  LET error_lower == ToLower(error) IN
  IF Contains(error_lower, KwTimeout) THEN CatTimeout
  ELSE IF Contains(error_lower, KwSelector) THEN CatSelector
  ELSE IF Contains(error_lower, KwNavigation) THEN CatNavigation
  ELSE IF Contains(error_lower, KwNetwork) THEN CatNetwork
  ELSE IF Contains(error_lower, KwAssertion) THEN CatAssertion
  ELSE IF Contains(error_lower, KwElementNotFound) THEN CatElementNotFound
  ELSE IF Contains(error_lower, KwClick) THEN CatInteraction
  ELSE IF Contains(error_lower, KwFill) THEN CatInput
  ELSE CatDefault

\* Every step is counted as failed.
Enhanced_FailedIsLen(r) ==
  LET passed == Len(SelectSeq(r.steps, LAMBDA ok : ok))
      categorized ==
        IF Truthy(r.error) /\ ~r.success
          THEN Some(_categorize_error(Get(r.error)) \o ColonSpace \o Get(r.error))
          ELSE r.error
  IN [r EXCEPT !.error = categorized,
               !.passed_assertions = passed,
               !.failed_assertions = Len(r.steps)]

\* Lines 32-42: the error text is prefixed with its category and the steps
\* are counted.
Enhanced(r) ==
  LET passed == Len(SelectSeq(r.steps, LAMBDA ok : ok))
      categorized ==
        IF Truthy(r.error) /\ ~r.success
          THEN Some(_categorize_error(Get(r.error)) \o ColonSpace \o Get(r.error))
          ELSE r.error
  IN [r EXCEPT !.error = categorized,
               !.passed_assertions = passed,
               !.failed_assertions = Len(r.steps) - passed]

\* What _analyze_result (51-66) does: the model answers, or the model call
\* raises and is swallowed, or building the prompt raises before the try.
AnalysisOutcomes == {"content", "model_raised", "raised"}

\* The result is enhanced before the analysis is attempted.
validate_EnhancesFirst(r, analysis) == Enhanced(r)

\* ValidationAgent.validate: an exception of the analysis reaches the
\* except of line 47 before any field was written.
validate(r, analysis) ==
  IF analysis = "raised" THEN r ELSE Enhanced(r)

(* ------------------------------- routing ------------------------------- *)
\* The ceiling of lines 186 and 200.
MaxRetries == 3

\* Every result is validated, passed or failed.
_route_after_execution_ValidateAll(res, rc) ==
  IF IsNone(res) THEN "end" ELSE "validate"
\* A passing result goes to validate on the first attempt only.
_route_after_execution_FirstAttemptOnly(res, rc) ==
  IF IsNone(res) THEN "end"
  ELSE IF Get(res).success /\ rc = 0 THEN "validate"
  ELSE IF rc >= MaxRetries \/ Get(res).success THEN "end"
  ELSE IF Truthy(Get(res).error) /\ ~Get(res).success THEN "heal"
  ELSE "end"

\* TestAutomationWorkflow._route_after_execution.
_route_after_execution(res, rc) ==
  IF IsNone(res) THEN "end"
  ELSE IF Get(res).success THEN "validate"
  ELSE IF rc >= MaxRetries THEN "end"
  ELSE IF Truthy(Get(res).error) /\ ~Get(res).success THEN "heal"
  ELSE "end"

\* The ceiling of line 200 is one too high.
_route_after_healing_CeilingFour(rc) == IF rc >= MaxRetries + 1 THEN "end" ELSE "execute"
\* The ceiling test of line 200 is missing.
_route_after_healing_NoCeiling(rc) == "execute"
\* TestAutomationWorkflow._route_after_healing.
_route_after_healing(rc) == IF rc >= MaxRetries THEN "end" ELSE "execute"

\* The counter is left as it is.
NextRetryCount_Same(rc) == rc
\* The counter is advanced by two.
NextRetryCount_Two(rc) == rc + 2
\* Line 160: state.get("retry_count", 0) + 1.
NextRetryCount(rc) == rc + 1

(* -------------------------------- state -------------------------------- *)
VARIABLES
  \* WorkflowState (test_workflow.py 19-30); page_html is never written and
  \* stays None, so it is not a variable.
  request, plan, generated_code, result, errors, current_step, session_id,
  retry_count,
  \* the engine: the node about to run ("init" before run is called, "end"
  \* when the graph has reached END), and what run gave its caller
  pc, returned,
  \* one call of TestExecutionAgent.execute: its position, its locals and
  \* the handles it holds
  xpc, x_session_id, x_success, x_error, x_screenshots, x_exc,
  browser, context, self_page,
  \* the session provider: sessions created and still open
  open_sessions,
  \* history: nodes entered, calls of execute and of heal, what was raised
  \* inside the current call of execute, and the last call of heal
  trace, exec_count, heal_count, x_raised, last_heal,
  \* the number of infrastructure failures injected so far
  faults,
  \* the hosting service (api/main.py): the results stored by session id,
  \* the background task of one submitted request, and the answer of the
  \* last status poll
  test_results, task, status,
  \* runs interleaved on the one TestExecutionAgent instance
  runs,
  \* a function of the repository called on its own: its arguments and
  \* what it gave back
  call, ret

wf_vars == <<request, plan, generated_code, result, errors, current_step,
             session_id, retry_count>>
x_vars == <<xpc, x_session_id, x_success, x_error, x_screenshots, x_exc,
            browser, context, self_page, x_raised>>
svc_vars == <<test_results, task, status, runs, call, ret>>
vars == <<request, plan, generated_code, result, errors, current_step,
          session_id, retry_count, pc, returned,
          xpc, x_session_id, x_success, x_error, x_screenshots, x_exc,
          browser, context, self_page, open_sessions,
          trace, exec_count, heal_count, x_raised, last_heal, faults,
          test_results, task, status, runs, call, ret>>

NoHeal == [called |-> FALSE, test_code |-> None, error |-> <<>>,
           error_type |-> "", llm |-> [raised |-> TRUE, content |-> <<>>],
           fault |-> "none", model |-> "not_called", healed_code |-> None]

\* No request submitted to the service, no interleaved runs, no function
\* called on its own.
NoCall == [fn |-> "none"]
SvcIdle ==
  /\ test_results = {} /\ task = "none" /\ status = ""
  /\ runs = <<>>
  /\ call = NoCall /\ ret = None

\* No run in progress.
RunIdle ==
  /\ request = None /\ plan = None /\ generated_code = None /\ result = None
  /\ errors = <<>> /\ current_step = "" /\ session_id = None /\ retry_count = 0
  /\ pc = "init" /\ returned = None
  /\ xpc = "idle" /\ x_session_id = None /\ x_success = FALSE /\ x_error = None
  /\ x_screenshots = <<>> /\ x_exc = None
  /\ browser = "none" /\ context = "none" /\ self_page = 0
  /\ open_sessions = 0
  /\ trace = <<>> /\ exec_count = 0 /\ heal_count = 0 /\ x_raised = <<>>
  /\ last_heal = NoHeal
  /\ faults = 0

\* The process after TestAutomationWorkflow.__init__ and
\* TestExecutionAgent.__init__, before run is called.
Init ==
  /\ RunIdle
  /\ SvcIdle

\* The engine ends the run when generate is due and the state has no plan.
Enter_HaltsWithoutPlan(n) ==
  LET m == IF n = "generate" /\ IsNone(plan') THEN "end" ELSE n
  IN /\ pc' = m
     /\ trace' = IF m = "end" THEN trace ELSE Append(trace, m)

\* The engine moves to node n: "end" is END, not a node.
Enter(n) ==
  /\ pc' = n
  /\ trace' = IF n = "end" THEN trace ELSE Append(trace, n)

(* ------------------------------- run ----------------------------------- *)
\* run, lines 209-226: the initial state, and the entry point "plan".
RunStart ==
  /\ pc = "init"
  /\ \E req \in Requests :
       /\ request' = Some(req)
       /\ session_id' = req.session_id
  /\ plan' = None /\ generated_code' = None /\ result' = None
  /\ errors' = <<>> /\ current_step' = "initialization" /\ retry_count' = 0
  /\ Enter("plan")
  /\ UNCHANGED <<returned, x_vars, open_sessions, exec_count, heal_count, last_heal, faults>>
  /\ UNCHANGED svc_vars

\* _plan_node, then the edge plan -> generate (line 63).
PlanNode ==
  /\ pc = "plan"
  /\ \/ \E p \in Plans(Get(request).url) :
          /\ plan' = Some(p)
          /\ current_step' = "planning_complete"
          /\ UNCHANGED errors
     \/ \E e \in PlanErrors :
          /\ errors' = Append(errors, e)
          /\ current_step' = "planning_failed"
          /\ UNCHANGED plan
  /\ Enter("generate")
  /\ UNCHANGED <<request, generated_code, result, session_id, retry_count,
                 returned, x_vars, open_sessions, exec_count, heal_count, last_heal,
                 faults>>
  /\ UNCHANGED svc_vars

\* get_test_template().format(...): the template's `{ test, expect }` and
\* `({ page })` are replacement fields no keyword argument supplies, so
\* format raises KeyError (playwright_templates.py 8-10).
TemplateFormatRaises == TRUE

\* TestGenerationAgent.generate for a TestPlan: <<"return", code>>.  The
\* wrapped model output is returned only if format succeeds.
generate(p, llm) ==
  IF ~llm.raised /\ ~TemplateFormatRaises
    THEN <<"return", <<Line("import", <<>>, TRUE, FALSE)>> \o llm.content>>
    ELSE <<"return", _generate_fallback_code(p)>>

\* _generate_node, then the edge generate -> execute (line 64).  With no
\* plan, plan.id raises AttributeError and so does the fallback (plan.name).
GenerateNode ==
  /\ pc = "generate"
  /\ IF IsNone(plan)
       THEN /\ errors' = Append(errors, TxtNoneName)
            /\ current_step' = "generation_failed"
            /\ UNCHANGED generated_code
       ELSE \E llm \in LLMOutcomes :
            /\ generated_code' = Some(generate(Get(plan), llm)[2])
            /\ current_step' = "generation_complete"
            /\ UNCHANGED errors
  /\ Enter("execute")
  /\ UNCHANGED <<request, plan, result, session_id, retry_count,
                 returned, x_vars, open_sessions, exec_count, heal_count, last_heal,
                 faults>>
  /\ UNCHANGED svc_vars

(* -------------------------- execution adapter -------------------------- *)
\* settings.screenshot_on_failure (config/settings.py 33-35, default "true").
screenshot_on_failure == TRUE

\* A handle that is still open when the `async with async_playwright()` block
\* is left by an exception: the driver is stopped under it, close() is never
\* called on it.
Drop(h) == IF h = "open" THEN "dropped" ELSE h

\* An exception leaves the outer try of execute at `stage` (line 120).
Raise(stage, e) ==
  /\ faults < MaxFaults
  /\ faults' = faults + 1
  /\ xpc' = "except"
  /\ x_exc' = Some(e)
  /\ x_raised' = Append(x_raised, [stage |-> stage, text |-> e])

\* plan_id is "unknown" for every request.
PlanIdOf_AlwaysUnknown(req) == Unknown
\* plan_id=request.session_id or "unknown" (lines 106 and 125).
PlanIdOf(req) == IF IsNone(req.session_id) THEN Unknown ELSE Get(req.session_id)

\* The TestResult _execute_node builds in its except branch (lines 123-132).
NodeErrorResult(p, e) ==
  TestResult("error", IF IsNone(p) THEN Unknown ELSE Get(p).id, FALSE, <<>>,
             <<>>, None, Some(e), "None", "None")

\* The update _execute_node returns, and the conditional edge out of
\* execute (lines 67-71).
ExecuteNodeReturns(r, errs, step) ==
  /\ result' = Some(r)
  /\ errors' = errs
  /\ current_step' = step
  /\ xpc' = "idle"
  /\ Enter(_route_after_execution(Some(r), retry_count))
  /\ UNCHANGED <<request, plan, generated_code, session_id, retry_count,
                 returned, heal_count, last_heal>>

\* _execute_node (lines 111-135) on the outcome of executor.execute:
\* <<"return", r>> or <<"raise", e>>.  An exception of the constructor in
\* the except branch leaves the node, ainvoke and run (lines 244-246).
ExecuteEnds(outcome) ==
  IF outcome[1] = "return"
    THEN ExecuteNodeReturns(outcome[2], errors, "execution_complete")
  ELSE IF ValidTestResult(NodeErrorResult(plan, outcome[2]))
    THEN ExecuteNodeReturns(NodeErrorResult(plan, outcome[2]),
                            Append(errors, outcome[2]), "execution_failed")
  ELSE /\ pc' = "raised" /\ xpc' = "idle"
       /\ UNCHANGED <<wf_vars, returned, trace, heal_count, last_heal>>

\* A session is created for every call.
NeedsSession_Always(sid) == TRUE
\* Line 38: `if not session_id:`.
NeedsSession(sid) == IsNone(sid)

\* Lines 31-45: the locals, and a new remote session when no id was passed.
ExecBegin ==
  /\ pc = "execute" /\ xpc = "idle"
  /\ exec_count < MaxAttempts
  /\ exec_count' = exec_count + 1
  /\ x_success' = FALSE /\ x_error' = None /\ x_screenshots' = <<>>
  /\ browser' = "none" /\ context' = "none"
  /\ IF NeedsSession(session_id)
       THEN \/ /\ open_sessions' = open_sessions + 1
               /\ x_session_id' = Some(Sid("browserbase", open_sessions + 1))
               /\ xpc' = "connect" /\ x_exc' = None /\ x_raised' = <<>>
               /\ UNCHANGED faults
            \/ /\ faults < MaxFaults
               /\ faults' = faults + 1
               /\ \E e \in InfraErrors :
                    /\ xpc' = "except" /\ x_exc' = Some(e)
                    /\ x_raised' = <<[stage |-> "create_session", text |-> e]>>
               /\ UNCHANGED <<open_sessions, x_session_id>>
       ELSE /\ x_session_id' = session_id
            /\ xpc' = "connect" /\ x_exc' = None /\ x_raised' = <<>>
            /\ UNCHANGED <<open_sessions, faults>>
  /\ last_heal' = NoHeal
  /\ UNCHANGED <<wf_vars, pc, returned, self_page, trace, heal_count>>
  /\ UNCHANGED svc_vars

\* Lines 48-52: p.chromium.connect.
ExecConnect ==
  /\ pc = "execute" /\ xpc = "connect"
  /\ \/ /\ browser' = "open" /\ xpc' = "new_context"
        /\ UNCHANGED <<x_exc, x_raised, faults>>
     \/ /\ \E e \in InfraErrors : Raise("connect", e)
        /\ UNCHANGED browser
  /\ UNCHANGED <<wf_vars, pc, returned, x_session_id, x_success, x_error,
                 x_screenshots, context, self_page, open_sessions, trace,
                 exec_count, heal_count, last_heal>>
  /\ UNCHANGED svc_vars

\* Lines 54-57: browser.new_context, outside the inner try/finally.
ExecNewContext ==
  /\ pc = "execute" /\ xpc = "new_context"
  /\ \/ /\ context' = "open" /\ xpc' = "new_page"
        /\ UNCHANGED <<x_exc, x_raised, browser, faults>>
     \/ /\ \E e \in InfraErrors : Raise("new_context", e)
        /\ browser' = Drop(browser)
        /\ UNCHANGED context
  /\ UNCHANGED <<wf_vars, pc, returned, x_session_id, x_success, x_error,
                 x_screenshots, self_page, open_sessions, trace,
                 exec_count, heal_count, last_heal>>
  /\ UNCHANGED svc_vars

\* Lines 59-60: context.new_page and self.page = page.
ExecNewPage ==
  /\ pc = "execute" /\ xpc = "new_page"
  /\ \/ /\ self_page' = exec_count /\ xpc' = "test"
        /\ UNCHANGED <<x_exc, x_raised, browser, context, faults>>
     \/ /\ \E e \in InfraErrors : Raise("new_page", e)
        /\ browser' = Drop(browser) /\ context' = Drop(context)
        /\ UNCHANGED self_page
  /\ UNCHANGED <<wf_vars, pc, returned, x_session_id, x_success, x_error,
                 x_screenshots, open_sessions, trace,
                 exec_count, heal_count, last_heal>>
  /\ UNCHANGED svc_vars

\* The outcomes of page.screenshot in the failure branch (lines 84-90).
ScreenshotOutcomes ==
  IF ~screenshot_on_failure THEN {"off"}
  ELSE IF faults < MaxFaults THEN {"ok", "fail"} ELSE {"ok"}

\* Lines 62-90: the inner try and its except, with the screenshot whose own
\* failure is swallowed.
ExecTest ==
  /\ pc = "execute" /\ xpc = "test"
  /\ \E o \in TestCodeOutcomes(generated_code) :
       /\ x_success' = o[1]
       /\ x_error' = o[2]
       /\ IF o[1]
            THEN UNCHANGED <<x_screenshots, x_raised, faults>>
            ELSE \E shot \in ScreenshotOutcomes :
                 /\ x_screenshots' =
                      IF shot = "ok" THEN Append(x_screenshots, "error.png")
                      ELSE x_screenshots
                 /\ faults' = IF shot = "fail" THEN faults + 1 ELSE faults
                 /\ x_raised' =
                      IF shot = "fail"
                        THEN x_raised \o <<[stage |-> "test_code", text |-> Get(o[2])],
                                           [stage |-> "screenshot", text |-> TxtWebSocket]>>
                        ELSE Append(x_raised, [stage |-> "test_code", text |-> Get(o[2])])
  /\ xpc' = "close_context"
  /\ UNCHANGED <<wf_vars, pc, returned, x_session_id, x_exc, browser, context,
                 self_page, open_sessions, trace, exec_count, heal_count, last_heal>>
  /\ UNCHANGED svc_vars

\* Line 93, first statement of the finally block.
ExecCloseContext ==
  /\ pc = "execute" /\ xpc = "close_context"
  /\ \/ /\ context' = "closed" /\ xpc' = "close_browser"
        /\ UNCHANGED <<x_exc, x_raised, browser, faults>>
     \/ /\ \E e \in InfraErrors : Raise("close_context", e)
        /\ browser' = Drop(browser) /\ context' = Drop(context)
  /\ UNCHANGED <<wf_vars, pc, returned, x_session_id, x_success, x_error,
                 x_screenshots, self_page, open_sessions, trace,
                 exec_count, heal_count, last_heal>>
  /\ UNCHANGED svc_vars

\* Line 94, second statement of the finally block.
ExecCloseBrowser ==
  /\ pc = "execute" /\ xpc = "close_browser"
  /\ \/ /\ browser' = "closed" /\ xpc' = "artifacts"
        /\ UNCHANGED <<x_exc, x_raised, faults>>
     \/ /\ \E e \in InfraErrors : Raise("close_browser", e)
        /\ browser' = Drop(browser)
  /\ UNCHANGED <<wf_vars, pc, returned, x_session_id, x_success, x_error,
                 x_screenshots, context, self_page, open_sessions, trace,
                 exec_count, heal_count, last_heal>>
  /\ UNCHANGED svc_vars

\* BrowserbaseClient.get_screenshots / get_recording: a failed request is
\* caught inside the client and answered with [] / None.
get_screenshots(outcome) == IF outcome = "ok" THEN <<"remote.png">> ELSE <<>>
get_recording(outcome) == IF outcome = "ok" THEN Some("recording") ELSE None

\* step_results holds a StepResult for the navigation and for each step.
NormalResult_ExtraSteps(req, success, error, screenshots, video_url) ==
  TestResult("result", PlanIdOf(req), success, <<TRUE, TRUE, TRUE>>, screenshots,
             video_url, error, "datetime", "datetime")
\* The TestResult of the normal path (lines 104-115).
NormalResult(req, success, error, screenshots, video_url) ==
  TestResult("result", PlanIdOf(req), success, <<>>, screenshots, video_url,
             error, "datetime", "datetime")

\* The outer except reports the outcome of the test code as success.
ExceptResult_Success(req, screenshots, e) ==
  TestResult("result", PlanIdOf(req), TRUE, <<>>, screenshots, None,
             Some(e), "datetime", "datetime")

\* The outer except reports the outcome the test code had.
ExceptResult_KeepsOutcome(req, screenshots, e) ==
  TestResult("result", PlanIdOf(req), x_success, <<>>, screenshots, None,
             Some(e), "datetime", "datetime")
\* The TestResult of the outer except (lines 123-133).
ExceptResult(req, screenshots, e) ==
  TestResult("result", PlanIdOf(req), FALSE, <<>>, screenshots, None,
             Some(e), "datetime", "datetime")

\* The number of failed requests among the two artifact requests.
Failed(sh, rec) == (IF sh = "fail" THEN 1 ELSE 0) + (IF rec = "fail" THEN 1 ELSE 0)

\* Lines 96-118: the remote artifacts and the result of the normal path.  An
\* exception of the constructor is caught by the outer except.
ExecArtifacts ==
  /\ pc = "execute" /\ xpc = "artifacts"
  /\ \E sh \in {"ok", "fail"}, rec \in {"ok", "fail"} :
       LET shots == x_screenshots \o get_screenshots(sh)
           r == NormalResult(Get(request), x_success, x_error, shots, get_recording(rec))
           failed == (IF sh = "fail" THEN <<[stage |-> "artifacts", text |-> TxtWebSocket]>> ELSE <<>>)
                  \o (IF rec = "fail" THEN <<[stage |-> "artifacts", text |-> TxtWebSocket]>> ELSE <<>>)
       IN /\ faults + Failed(sh, rec) <= MaxFaults
          /\ faults' = faults + Failed(sh, rec)
          /\ x_screenshots' = shots
          /\ IF ValidTestResult(r)
               THEN /\ x_raised' = x_raised \o failed
                    /\ ExecuteEnds(<<"return", r>>)
                    /\ UNCHANGED x_exc
               ELSE /\ x_raised' = x_raised \o failed
                                   \o <<[stage |-> "result", text |-> TxtValidation]>>
                    /\ xpc' = "except"
                    /\ x_exc' = Some(TxtValidation)
                    /\ UNCHANGED <<wf_vars, pc, returned, trace, heal_count, last_heal>>
  /\ UNCHANGED <<x_session_id, x_success, x_error, browser, context,
                 self_page, open_sessions, exec_count>>
  /\ UNCHANGED svc_vars

\* Lines 120-133: the outer except.  An exception of the constructor here
\* leaves execute.
ExecExcept ==
  /\ pc = "execute" /\ xpc = "except"
  /\ LET r == ExceptResult(Get(request), x_screenshots, Get(x_exc))
     IN ExecuteEnds(IF ValidTestResult(r) THEN <<"return", r>>
                    ELSE <<"raise", TxtValidation>>)
  /\ UNCHANGED <<x_session_id, x_success, x_error, x_screenshots, x_exc,
                 browser, context, self_page, open_sessions, exec_count,
                 x_raised, faults>>
  /\ UNCHANGED svc_vars

(* ----------------------- validate, heal and END ------------------------ *)
\* _validate_node, then the edge validate -> END (line 73).
ValidateNode ==
  /\ pc = "validate"
  /\ \E analysis \in AnalysisOutcomes :
       result' = Some(validate(Get(result), analysis))
  /\ current_step' = "validation_complete"
  /\ Enter("end")
  /\ UNCHANGED <<request, plan, generated_code, errors, session_id, retry_count,
                 returned, x_vars, open_sessions, exec_count, heal_count, last_heal,
                 faults>>
  /\ UNCHANGED svc_vars

\* _heal_node, then the conditional edge out of heal (lines 75-77).
HealNode ==
  /\ pc = "heal"
  /\ heal_count < MaxAttempts
  /\ \E llm \in LLMOutcomes :
       LET absent == IsNone(Get(result).error)
           error == IF absent THEN <<>> ELSE Get(Get(result).error)
           error_type == IF absent THEN "" ELSE _identify_error_type(error)
           healed_code == heal(generated_code, Get(result).error, llm)
       IN /\ ~CallsModel(error_type) => llm.raised
          /\ absent => llm.raised
          /\ generated_code' = healed_code
          /\ last_heal' =
               [called |-> TRUE, test_code |-> generated_code, error |-> error,
                error_type |-> error_type, llm |-> llm,
                fault |-> IF absent THEN "classify"
                          ELSE IF HealBody(generated_code, Get(result).error, llm)[1] = "raise"
                            THEN "strategy"
                          ELSE "none",
                model |-> IF absent \/ ~CallsModel(error_type) THEN "not_called"
                          ELSE IF llm.raised THEN "raised"
                          ELSE IF llm.content = <<>> THEN "empty"
                          ELSE "content",
                healed_code |-> healed_code]
  /\ retry_count' = NextRetryCount(retry_count)
  /\ current_step' = "healing_complete"
  /\ heal_count' = heal_count + 1
  /\ Enter(_route_after_healing(retry_count'))
  /\ UNCHANGED <<request, plan, result, errors, session_id, returned, x_vars,
                 open_sessions, exec_count, faults>>
  /\ UNCHANGED svc_vars

\* The failure result run builds when the final state has no result
\* (lines 233-242).
NoResultResult ==
  TestResult("error_no_result", Unknown, FALSE, <<>>, <<>>, None,
             Some(TxtNoResult), "None", "None")

\* run, lines 228-246, on the final state: the result of the state, or the
\* synthesized failure result; an exception of the constructor is re-raised.
RunFinish ==
  /\ pc = "end"
  /\ IF ~IsNone(result)
       THEN /\ returned' = result /\ pc' = "returned"
       ELSE IF ValidTestResult(NoResultResult)
         THEN /\ returned' = Some(NoResultResult) /\ pc' = "returned"
         ELSE /\ returned' = None /\ pc' = "raised"
  /\ UNCHANGED <<wf_vars, x_vars, open_sessions, trace, exec_count, heal_count,
                 last_heal, faults>>
  /\ UNCHANGED svc_vars

Next ==
  \/ RunStart \/ PlanNode \/ GenerateNode
  \/ ExecBegin \/ ExecConnect \/ ExecNewContext \/ ExecNewPage \/ ExecTest
  \/ ExecCloseContext \/ ExecCloseBrowser \/ ExecArtifacts \/ ExecExcept
  \/ ValidateNode \/ HealNode \/ RunFinish

Spec == Init /\ [][Next]_vars

\* The engine runs a started run to its end: no step waits on anything but
\* the awaited call itself.
FairSpec == Spec /\ WF_vars(Next)

TypeOK ==
  /\ retry_count \in Nat
  /\ pc \in {"init", "plan", "generate", "execute", "validate", "heal", "end", "returned", "raised"}

(* =============================== claims ================================ *)
AfterPlan == pc \notin {"init", "plan"}
PlanFailed == AfterPlan /\ IsNone(plan)
Entered(n) == \E i \in 1..Len(trace) : trace[i] = n
Finished == pc \in {"returned", "raised"}

\* The last execute attempt failed with an error text; every earlier
\* attempt of the run then did so too, or the run would have ended there.
FailedWithText(r) == ~IsNone(r) /\ ~Get(r).success /\ Truthy(Get(r).error)

\* An upper bound of the steps a run has left: it counts the heal budget
\* that remains and the position inside the current node.
SubRank ==
  CASE xpc = "idle" -> 9 [] xpc = "connect" -> 8 [] xpc = "new_context" -> 7
    [] xpc = "new_page" -> 6 [] xpc = "test" -> 5 [] xpc = "close_context" -> 4
    [] xpc = "close_browser" -> 3 [] xpc = "artifacts" -> 2 [] OTHER -> 1
Rank ==
  CASE pc = "init" -> 200 [] pc = "plan" -> 199 [] pc = "generate" -> 198
    [] pc = "execute" -> 12 * (MaxRetries - retry_count) + 3 + SubRank
    [] pc = "heal" -> 12 * (MaxRetries - retry_count) + 3
    [] pc = "validate" -> 2 [] pc = "end" -> 1 [] OTHER -> 0

\* The guard of the action at the current position holds (the state
\* predicate that ENABLED Next reduces to, position by position).
CanStep ==
  CASE pc \in {"init", "validate", "end"} -> TRUE
    [] pc \in {"plan", "generate"} -> ~IsNone(request)
    [] pc = "heal" -> heal_count < MaxAttempts /\ FailedWithText(result)
    [] pc = "execute" ->
       (CASE xpc = "idle" -> exec_count < MaxAttempts
          [] xpc = "test" -> TestCodeOutcomes(generated_code) # {}
          [] xpc = "except" -> ~IsNone(x_exc)
          [] xpc \in {"connect", "new_context", "new_page", "close_context",
                      "close_browser", "artifacts"} -> TRUE
          [] OTHER -> FALSE)
    [] OTHER -> FALSE

\* C1: every run terminates after finitely many transitions and yields
\* exactly one TestResult: each step strictly lowers a natural-valued rank,
\* a run that has not finished always has a next step, it never ends by
\* raising, and what it returns is one TestResult that is then kept.
C1_RunTerminates ==
  /\ [](Rank \in Nat)
  /\ [][Rank' < Rank]_vars
  /\ [](~Finished => CanStep)
  /\ [](pc # "raised")
  /\ [](pc = "returned" <=> ~IsNone(returned))
  /\ [][~IsNone(returned) => returned' = returned]_vars
C1_Witness ==
  pc = "returned" /\ ~IsNone(returned) /\ heal_count = MaxRetries /\ exec_count = MaxRetries

\* C2: retry_count stays in 0..3, never decreases, and heal is never
\* entered with retry_count already at 3.
C2_RetryCountBounded ==
  /\ [](retry_count \in 0..MaxRetries)
  /\ [](pc = "heal" => retry_count < MaxRetries)
  /\ [][retry_count' >= retry_count]_vars
C2_Witness == retry_count = MaxRetries /\ heal_count = MaxRetries

\* C3: when the execute attempts keep failing with an error text, the run
\* makes exactly three heal attempts and three execute attempts, goes from
\* the third heal to terminal, and returns a result with success = false.
C3_HealBudgetExhausted ==
  /\ [](heal_count <= MaxRetries)
  /\ []((pc \in {"end", "returned"} /\ FailedWithText(result))
          => (heal_count = MaxRetries /\ exec_count = MaxRetries))
  /\ [][(pc = "heal" /\ heal_count = MaxRetries - 1) => pc' = "end"]_vars
  /\ []((pc = "returned" /\ FailedWithText(result))
          => (returned = result /\ ~Get(returned).success))
C3_Witness ==
  pc = "returned" /\ FailedWithText(returned) /\ heal_count = MaxRetries
  /\ trace = <<"plan", "generate", "execute", "heal", "execute", "heal", "execute", "heal">>

\* C4: a failure of the plan handler is propagated to the caller of run,
\* and neither generate nor execute is entered.
C4_PlanFailureHalts ==
  PlanFailed => (~Entered("generate") /\ ~Entered("execute") /\ pc # "returned")

(* ------------------ the epilogue of run, on its own -------------------- *)
\* The final states WorkflowState admits (result is Optional[TestResult]):
\* run's lines 228-246 are applied to each of them.  In Spec the graph never
\* ends without a result, so the branch of lines 233-242 is exercised here.
FinalResults ==
  {None}
  \cup {Some(NormalResult(req, TRUE, None, shots, video)) :
          req \in Requests, shots \in {<<>>, <<"remote.png">>},
          video \in {None, Some("recording")}}
  \cup {Some(NormalResult(req, FALSE, Some(e), shots, None)) :
          req \in Requests, shots \in {<<>>, <<"error.png">>}, e \in RuntimeErrors}

TailInit ==
  /\ \E req \in Requests : request = Some(req) /\ session_id = req.session_id
  /\ result \in FinalResults
  /\ retry_count \in 0..MaxRetries
  /\ plan = None /\ generated_code = None
  /\ errors = <<>> /\ current_step = "execution_complete"
  /\ pc = "end" /\ returned = None
  /\ xpc = "idle" /\ x_session_id = None /\ x_success = FALSE /\ x_error = None
  /\ x_screenshots = <<>> /\ x_exc = None
  /\ browser = "none" /\ context = "none" /\ self_page = 0
  /\ open_sessions = 0
  /\ trace = <<>> /\ exec_count = 0 /\ heal_count = 0 /\ x_raised = <<>>
  /\ last_heal = NoHeal
  /\ faults = 0
  /\ SvcIdle

TailSpec == TailInit /\ [][RunFinish]_vars

AfterExecute == exec_count > 0 /\ xpc = "idle" /\ pc # "raised"

ClaimedStages ==
  {"create_session", "connect", "new_context", "new_page", "test_code",
   "close_context", "close_browser", "artifacts"}
PropagatedStages == ClaimedStages \ {"artifacts"}
FailuresAt(S) == SelectSeq(x_raised, LAMBDA f : f.stage \in S)
Last(q) == q[Len(q)]

\* C6 as stated: a failure at any stage, fetching the remote artifacts
\* included, gives a result with success = false and the failure text.
C6_FailureAtAnyStage ==
  (AfterExecute /\ FailuresAt(ClaimedStages) # <<>>)
    => /\ ~IsNone(result)
       /\ ~Get(result).success
       /\ Get(result).error = Some(Last(FailuresAt(ClaimedStages)).text)

\* C6, amended: execute never raises and always returns a TestResult; a
\* failure at any stage before the artifacts are fetched gives success =
\* false with the text of the last such failure; a failed artifact request
\* is swallowed and leaves success and error as the test code left them.
C6_FailureBeforeArtifacts ==
  /\ pc # "raised"
  /\ AfterExecute => ~IsNone(result)
  /\ (AfterExecute /\ FailuresAt(PropagatedStages) # <<>>)
       => /\ ~Get(result).success
          /\ Get(result).error = Some(Last(FailuresAt(PropagatedStages)).text)
  /\ (AfterExecute /\ FailuresAt(PropagatedStages) = <<>>)
       => (Get(result).success /\ IsNone(Get(result).error))
C6_Witness ==
  /\ AfterExecute
  /\ FailuresAt({"test_code"}) = <<>>
  /\ FailuresAt({"close_context"}) # <<>>
  /\ ~Get(result).success
  /\ Get(result).error = Some(TxtTimeoutUpper)

\* C7: when execute returns, every context and browser handle it acquired
\* has been closed, and the browser is closed only after the context.
C7_HandlesReleased ==
  /\ [](AfterExecute => (browser \in {"none", "closed"} /\ context \in {"none", "closed"}))
  /\ [][(browser # "closed" /\ browser' = "closed") => context = "closed"]_vars

(* ---------------------- claims on one call of heal --------------------- *)
HealOutcome(r, test_code) == IF r[1] = "return" THEN r[2] ELSE test_code

\* C8 as stated: the text of a timeout while waiting for '#submit' is
\* classified timeout and repaired by the timeout strategy.
C8_TimeoutTextIsTimeout ==
  (last_heal.called /\ last_heal.error = TxtTimeoutSelector)
    => /\ last_heal.error_type = "timeout"
       /\ last_heal.healed_code =
            HealOutcome(_fix_timeout_error(last_heal.test_code, last_heal.llm),
                        last_heal.test_code)

\* C8, amended: that text contains 'selector', so it is classified selector
\* and repaired by the selector strategy.
C8_TimeoutTextIsSelector ==
  (last_heal.called /\ last_heal.error = TxtTimeoutSelector)
    => /\ last_heal.error_type = "selector"
       /\ last_heal.healed_code =
            HealOutcome(_fix_selector_error(last_heal.test_code, last_heal.error,
                                            last_heal.llm),
                        last_heal.test_code)
C8_Witness ==
  /\ last_heal.called /\ last_heal.error = TxtTimeoutSelector
  /\ last_heal.model = "raised" /\ ~IsNone(last_heal.test_code)
  /\ last_heal.healed_code =
       Some(_apply_fallback_selector_fix(Get(last_heal.test_code), last_heal.error))
  /\ last_heal.healed_code # Some(_apply_fallback_timeout_fix(Get(last_heal.test_code)))

Has(text, kw) == Contains(ToLower(text), kw)

\* C9: the classification follows the precedence selector/element, then
\* timeout, then navigation/goto, then general, on the lower-cased text; a
\* text with 'timeout' in any letter case is timeout exactly when it has
\* neither 'selector' nor 'element'.
C9_ClassificationPrecedence ==
  last_heal.called =>
    LET t == last_heal.error
        ty == last_heal.error_type
        sel == Has(t, KwSelector) \/ Has(t, KwElement)
    IN /\ sel => ty = "selector"
       /\ (~sel /\ Has(t, KwTimeout)) => ty = "timeout"
       /\ (~sel /\ ~Has(t, KwTimeout) /\ (Has(t, KwNavigation) \/ Has(t, KwGoto)))
            => ty = "navigation"
       /\ (~sel /\ ~Has(t, KwTimeout) /\ ~Has(t, KwNavigation) /\ ~Has(t, KwGoto))
            => ty = "general"
       /\ Has(t, KwTimeout) => (ty = "timeout" <=> ~sel)
       /\ t = TxtTimeoutUpper => ty = "timeout"
       /\ t = TxtNavigationTimeout => ty = "timeout"
       /\ t = TxtNameTimeout => ty = "timeout"
       /\ t = TxtTimeoutSelector => ty = "selector"
       /\ t = TxtElementGone => ty = "selector"
       /\ t = TxtGotoFailed => ty = "navigation"
       /\ t \in {TxtBoom, TxtNoneSplit, TxtInvalidSyntax, TxtIndentExpected} => ty = "general"
C9_Witness ==
  last_heal.called /\ last_heal.error = TxtTimeoutUpper /\ last_heal.error_type = "timeout"

Fallback(error_type, code, error) ==
  CASE error_type = "selector" -> _apply_fallback_selector_fix(code, error)
    [] error_type = "timeout" -> _apply_fallback_timeout_fix(code)
    [] OTHER -> _fix_navigation_error(code)

\* C10: for the selector, timeout and navigation categories heal makes a
\* model-assisted attempt first, and when that attempt raises or returns an
\* empty result it returns the category's fallback transform of the input
\* code, never the empty result.
C10_FallbackOnFailedModelAttempt ==
  (last_heal.called /\ last_heal.error_type \in {"selector", "timeout", "navigation"})
    => /\ last_heal.model # "not_called"
       /\ (last_heal.model \in {"raised", "empty"} /\ ~IsNone(last_heal.test_code))
            => last_heal.healed_code =
                 Some(Fallback(last_heal.error_type, Get(last_heal.test_code),
                               last_heal.error))
       /\ last_heal.model = "empty" => last_heal.healed_code # Some(<<>>)

(* ----------------------- the heal node on its own ---------------------- *)
\* The states in which _heal_node can be called, by the types of
\* WorkflowState: any code artifact or none, a failed result with any error
\* text or none, any retry count below the ceiling.
HealCodes == {None, Some(<<>>), Some(PyCode), Some(JsCode)}
HealErrors ==
  {None, Some(TxtEmpty), Some(TxtBoom), Some(TxtElementGone), Some(TxtTimeoutUpper),
   Some(TxtTimeoutSelector), Some(TxtGotoFailed), Some(TxtNoneSplit)}

HealInit ==
  /\ \E req \in Requests :
       /\ request = Some(req) /\ session_id = req.session_id
       /\ \E e \in HealErrors :
            result = Some(NormalResult(req, FALSE, e, <<>>, None))
  /\ generated_code \in HealCodes
  /\ retry_count \in 0..(MaxRetries - 1)
  /\ plan = None
  /\ errors = <<>> /\ current_step = "execution_complete"
  /\ pc = "heal" /\ returned = None
  /\ xpc = "idle" /\ x_session_id = None /\ x_success = FALSE /\ x_error = None
  /\ x_screenshots = <<>> /\ x_exc = None
  /\ browser = "none" /\ context = "none" /\ self_page = 0
  /\ open_sessions = 0
  /\ trace = <<>> /\ exec_count = 0 /\ heal_count = 0 /\ x_raised = <<>>
  /\ last_heal = NoHeal
  /\ faults = 0
  /\ SvcIdle

HealSpec == HealInit /\ [][HealNode]_vars

WithSessionId(req) ==
  IF IsNone(req.session_id) THEN [req EXCEPT !.session_id = Some(Sid("uuid", 1))]
  ELSE req

\* An entry already stored under the id is kept.
Store_KeepsFirst(results, sid, r) ==
  IF \E e \in results : e.sid = sid THEN results
  ELSE results \cup {[sid |-> sid, result |-> r]}
\* test_results[sid] = r
Store(results, sid, r) ==
  {e \in results : e.sid # sid} \cup {[sid |-> sid, result |-> r]}
Stored(sid) == \E e \in test_results : e.sid = sid

\* The TestResult of the except branch of execute_test_async (184-193).
AsyncErrorResult(e) ==
  TestResult("error", Unknown, FALSE, <<>>, <<>>, None, Some(e), "None", "None")

\* execute_test_async once workflow.run has returned or raised: the result
\* is stored, or the except branch builds an error result to store; when
\* that constructor raises, the task ends with nothing stored.
execute_test_async ==
  /\ task = "running" /\ pc \in {"returned", "raised"}
  /\ IF pc = "returned"
       THEN /\ test_results' = Store(test_results, Get(session_id), Get(returned))
            /\ task' = "finished"
       ELSE IF ValidTestResult(AsyncErrorResult(TxtValidation))
         THEN /\ test_results' =
                   Store(test_results, Get(session_id), AsyncErrorResult(TxtValidation))
              /\ task' = "finished"
         ELSE /\ test_results' = test_results
              /\ task' = "crashed"
  /\ UNCHANGED <<wf_vars, pc, returned, x_vars, open_sessions, trace, exec_count,
                 heal_count, last_heal, faults, status, runs, call, ret>>

\* get_test_status for the session id of the submitted request.
get_test_status ==
  /\ task # "none"
  /\ status' = IF Stored(Get(session_id)) THEN "completed" ELSE "pending"
  /\ UNCHANGED <<wf_vars, pc, returned, x_vars, open_sessions, trace, exec_count,
                 heal_count, last_heal, faults, test_results, task, runs, call, ret>>

\* A request has been submitted, its background task is awaiting
\* workflow.run, and the workflow has reached END in any of its final
\* states.
ApiInit ==
  /\ \E req \in Requests :
       /\ request = Some(WithSessionId(req))
       /\ session_id = WithSessionId(req).session_id
  /\ result \in FinalResults
  /\ retry_count \in 0..MaxRetries
  /\ plan = None /\ generated_code = None
  /\ errors = <<>> /\ current_step = "execution_complete"
  /\ pc = "end" /\ returned = None
  /\ xpc = "idle" /\ x_session_id = None /\ x_success = FALSE /\ x_error = None
  /\ x_screenshots = <<>> /\ x_exc = None
  /\ browser = "none" /\ context = "none" /\ self_page = 0
  /\ open_sessions = 0
  /\ trace = <<>> /\ exec_count = 0 /\ heal_count = 0 /\ x_raised = <<>>
  /\ last_heal = NoHeal
  /\ faults = 0
  /\ test_results = {} /\ task = "running" /\ status = ""
  /\ runs = <<>> /\ call = NoCall /\ ret = None

ApiNext == RunFinish \/ execute_test_async \/ get_test_status
ApiSpec == ApiInit /\ [][ApiNext]_vars

TaskOver == task \in {"finished", "crashed"}

RunIds == {1, 2}
RunAt(r, at, page, used) ==
  [runs EXCEPT ![r] = [session_id |-> Sid("caller", r), at |-> at,
                       page |-> page, used |-> used]]

ConcUnchanged ==
  UNCHANGED <<wf_vars, pc, returned, xpc, x_session_id, x_success, x_error,
              x_screenshots, x_exc, browser, context, x_raised, open_sessions,
              trace, exec_count, heal_count, last_heal, faults,
              test_results, task, status, call, ret>>

\* Lines 59-60: page = await context.new_page(); self.page = page.
ConcNewPage(r) ==
  /\ runs[r].at = "new_page"
  /\ runs' = RunAt(r, "test", r, runs[r].used)
  /\ self_page' = r
  /\ ConcUnchanged

\* The test code operates on exec_globals["page"], the local of line 59.
ConcTestUsesPage(r) ==
  /\ runs[r].at = "test" /\ Len(runs[r].used) < MaxSteps
  /\ runs' = RunAt(r, "test", runs[r].page, Append(runs[r].used, runs[r].page))
  /\ UNCHANGED self_page
  /\ ConcUnchanged

\* The test code calls screenshot(): take_screenshot (lines 142-148)
\* operates on self.page as it is at the time of the call.
ConcTestCallsScreenshot(r) ==
  /\ runs[r].at = "test" /\ Len(runs[r].used) < MaxSteps
  /\ runs' = RunAt(r, "test", runs[r].page, Append(runs[r].used, self_page))
  /\ UNCHANGED self_page
  /\ ConcUnchanged

\* The test code returns or raises; the handles are closed (lines 75-94).
ConcTestEnds(r) ==
  /\ runs[r].at = "test"
  /\ runs' = RunAt(r, "closed", runs[r].page, runs[r].used)
  /\ UNCHANGED self_page
  /\ ConcUnchanged

ConcInit ==
  /\ RunIdle
  /\ test_results = {} /\ task = "none" /\ status = ""
  /\ call = NoCall /\ ret = None
  /\ runs = [r \in RunIds |->
               [session_id |-> Sid("caller", r), at |-> "new_page",
                page |-> 0, used |-> <<>>]]

ConcNext ==
  \E r \in RunIds :
    \/ ConcNewPage(r) \/ ConcTestUsesPage(r)
    \/ ConcTestCallsScreenshot(r) \/ ConcTestEnds(r)
ConcSpec == ConcInit /\ [][ConcNext]_vars

\* C13: at every interleaving of two runs with different session ids, the
\* pages a run's test code operates on, through page or through the
\* screenshot helper, are that run's own page, and no step of a run changes
\* what the other run holds.
C13_RunsShareNoState ==
  /\ [](\A r \in RunIds :
          \A i \in 1..Len(runs[r].used) : runs[r].used[i] = runs[r].page)
  /\ [][\A r, q \in RunIds :
          (r # q /\ runs'[r] # runs[r]) => runs'[q] = runs[q]]_vars

(* --------------------------- plan conversion --------------------------- *)
\* The values of core.types.ActionType.
ActClick == <<"c","l","i","c","k">>
ActType == <<"t","y","p","e">>
ActNavigate == <<"n","a","v","i","g","a","t","e">>
ActWait == <<"w","a","i","t">>
ActScreenshot == <<"s","c","r","e","e","n","s","h","o","t">>
ActSelect == <<"s","e","l","e","c","t">>
ActHover == <<"h","o","v","e","r">>
ActScroll == <<"s","c","r","o","l","l">>
ActAssert == <<"a","s","s","e","r","t">>
ActionTypeValues ==
  {ActClick, ActType, ActNavigate, ActWait, ActScreenshot,
   ActSelect, ActHover, ActScroll, ActAssert}

\* action_mapping of _convert_to_test_plan, in the order the dict is
\* iterated: <<variation, normalized>>.
action_mapping ==
  <<<<<<"n","a","v","i","g","a","t","e"," ","t","o">>, ActNavigate>>,
    <<<<"n","a","v","i","g","a","t","e"," ","t","o"," ","t","h","e"," ","u","r","l">>, ActNavigate>>,
    <<<<"g","o"," ","t","o">>, ActNavigate>>,
    <<<<"f","i","l","l">>, ActType>>,
    <<<<"e","n","t","e","r">>, ActType>>,
    <<<<"i","n","p","u","t">>, ActType>>,
    <<<<"p","r","e","s","s">>, ActClick>>,
    <<<<"t","a","p">>, ActClick>>,
    <<<<"w","a","i","t"," ","f","o","r">>, ActWait>>,
    <<<<"t","a","k","e"," ","s","c","r","e","e","n","s","h","o","t">>, ActScreenshot>>,
    <<<<"c","a","p","t","u","r","e">>, ActScreenshot>>,
    <<<<"c","h","o","o","s","e">>, ActSelect>>,
    <<<<"p","i","c","k">>, ActSelect>>,
    <<<<"s","c","r","o","l","l"," ","t","o">>, ActScroll>>>>

\* Action tokens a model writes into a step descriptor.
TokClickCaps == <<"C","l","i","c","k">>
TokPressEnter == <<"P","r","e","s","s"," ","E","n","t","e","r">>
TokGoTo == <<"g","o"," ","t","o">>
TokBogus == <<"d","o","u","b","l","e","-","c","h","e","c","k">>
TypVisible == <<"v","i","s","i","b","l","e">>
TypText == <<"t","e","x","t">>
TypShown == <<"s","h","o","w","n">>
OpEquals == <<"e","q","u","a","l","s">>
OpContains == <<"c","o","n","t","a","i","n","s">>
OpMatches == <<"m","a","t","c","h","e","s">>
\* The values of core.types.AssertionType and of Assertion.operator.
AssertionTypeValues ==
  {TypVisible, TypText, <<"v","a","l","u","e">>, <<"u","r","l">>,
   <<"t","i","t","l","e">>, <<"c","o","u","n","t">>,
   <<"a","t","t","r","i","b","u","t","e">>}
OperatorValues ==
  {OpEquals, OpContains, <<"g","r","e","a","t","e","r">>, <<"l","e","s","s">>}

\* A value of a descriptor dict under a key: the key is absent, or holds
\* null, or holds a string.
JAbsent == [k |-> "absent", v |-> <<>>]
JNull == [k |-> "null", v |-> <<>>]
JStr(s) == [k |-> "str", v |-> s]
\* dict.get(key, default)
DictGet(field, default) == IF field.k = "absent" THEN default ELSE field
\* A JSON value passed to an Optional[str] field.
OptOf(field) == IF field.k = "str" THEN Some(field.v) ELSE None

\* The member of ActionType with this value, as the rest of the model
\* names it.
EnumOf(value) ==
  CASE value = ActClick -> "click" [] value = ActType -> "type"
    [] value = ActNavigate -> "navigate" [] value = ActWait -> "wait"
    [] value = ActScreenshot -> "screenshot" [] value = ActSelect -> "select"
    [] value = ActHover -> "hover" [] value = ActScroll -> "scroll"
    [] value = ActAssert -> "assert"

\* No variation is looked up: the token is left as it is.
MapVariation_NoAliases(action) == action

\* Lines 159-162: the first variation, in dict order, found in the token.
MapVariation(action) ==
  LET hits == {i \in 1..Len(action_mapping) : Contains(action, action_mapping[i][1])}
  IN IF hits = {} THEN action ELSE action_mapping[Minimum(hits)][2]

\* Lines 159-162 only: a token that is no ActionType value is left as it is.
NormalizeAction_NoDefault(action) == MapVariation(action)

\* Lines 159-167 on the lower-cased token: the variation mapping, then the
\* default click for what is still no ActionType value.
NormalizeAction(action) ==
  IF MapVariation(action) \in ActionTypeValues THEN MapVariation(action)
  ELSE ActClick

\* The body of the try of lines 136-176 for one step descriptor:
\* <<"ok", step>>, or <<"raise">> when .lower() is called on a non-string
\* or TestStep rejects a field (description is a required str, the action
\* must be an ActionType value).
BuildStep(step_data) ==
  LET a == DictGet(step_data.action, JStr(ActClick))
      d == DictGet(step_data.description, JStr(<<>>))
  IN IF a.k # "str" THEN <<"raise">>
     ELSE LET action == NormalizeAction(ToLower(a.v))
          IN IF action \notin ActionTypeValues \/ d.k # "str" THEN <<"raise">>
             ELSE <<"ok", [action |-> EnumOf(action),
                           selector |-> OptOf(step_data.selector),
                           value |-> OptOf(step_data.value)]>>

\* The body of the try of lines 183-196 for one assertion descriptor.
BuildAssertion(assertion_data) ==
  LET t == DictGet(assertion_data.type, JStr(TypVisible))
      assert_type == IF t.k = "str" /\ t.v \in AssertionTypeValues THEN t.v
                     ELSE TypVisible
      o == DictGet(assertion_data.operator, JStr(OpEquals))
      d == DictGet(assertion_data.description, JStr(<<>>))
  IN IF o.k # "str" \/ o.v \notin OperatorValues \/ d.k # "str" THEN <<"raise">>
     ELSE <<"ok", [type |-> IF assert_type = TypText THEN "text"
                            ELSE IF assert_type = TypVisible THEN "visible"
                            ELSE "other",
                   selector |-> OptOf(assertion_data.selector),
                   expected |-> OptOf(assertion_data.expected)]>>

RECURSIVE BuildAll(_, _)
\* The two loops: what is built is appended, what raises is logged and
\* skipped.
BuildAll(Build(_), data) ==
  IF data = <<>> THEN <<>>
  ELSE (IF Build(Head(data))[1] = "ok" THEN <<Build(Head(data))[2]>> ELSE <<>>)
       \o BuildAll(Build, Tail(data))

\* TestPlanningAgent._convert_to_test_plan: <<"return", plan>>.
_convert_to_test_plan(output, url) ==
  <<"return", [id |-> Sid("plan", 1), url |-> url,
               steps |-> BuildAll(BuildStep, output.steps),
               assertions |-> BuildAll(BuildAssertion, output.assertions)]>>

\* Descriptors as the model can write them: well-formed, with an action in
\* another letter case, with a known variation, with an unknown token, with
\* no action key, with a null action, with a null description.
StepData(action, selector, description) ==
  [action |-> action, selector |-> JStr(selector), value |-> JNull,
   description |-> description]
SelA == <<"#","a">>
SelB == <<"#","b">>
SelC == <<"#","c">>
SelD == <<"#","d">>
SelE == <<"#","e">>
SelF == <<"#","f">>
StepDescriptors ==
  {StepData(JStr(TokClickCaps), SelA, JStr(<<>>)),
   StepData(JStr(TokPressEnter), SelB, JAbsent),
   StepData(JStr(TokBogus), SelC, JStr(<<>>)),
   StepData(JAbsent, SelD, JStr(<<>>)),
   StepData(JNull, SelE, JStr(<<>>)),
   StepData(JStr(TokGoTo), SelF, JNull)}
AssertionData(type, selector, operator) ==
  [type |-> type, selector |-> JStr(selector), expected |-> JNull,
   operator |-> operator, description |-> JAbsent]
AssertionDescriptors ==
  {AssertionData(JStr(TypText), SelA, JStr(OpContains)),
   AssertionData(JStr(TypShown), SelB, JAbsent),
   AssertionData(JStr(TypVisible), SelC, JStr(OpMatches))}

SeqsUpTo(S, n) == UNION {[1..k -> S] : k \in 0..n}

\* _convert_to_test_plan called on a parsed model output.
ConvInit ==
  /\ RunIdle
  /\ test_results = {} /\ task = "none" /\ status = "" /\ runs = <<>>
  /\ \E st \in SeqsUpTo(StepDescriptors, MaxDescriptors),
        as \in SeqsUpTo(AssertionDescriptors, MaxDescriptors) :
       call = [fn |-> "_convert_to_test_plan", steps |-> st, assertions |-> as,
               url |-> UrlExample]
  /\ ret = None

ConvertPlan ==
  /\ call.fn = "_convert_to_test_plan" /\ IsNone(ret)
  /\ ret' = Some(_convert_to_test_plan(call, call.url))
  /\ UNCHANGED <<wf_vars, pc, returned, x_vars, open_sessions, trace, exec_count,
                 heal_count, last_heal, faults, test_results, task, status, runs,
                 call>>

ConvSpec == ConvInit /\ [][ConvertPlan]_vars

\* What the claim calls an entry that can be built, and an unrecognized
\* action token.
CanBuildStep(d) == d.action.k \in {"absent", "str"} /\ d.description.k # "null"
CanBuildAssertion(d) ==
  /\ d.operator.k = "absent" \/ (d.operator.k = "str" /\ d.operator.v \in OperatorValues)
  /\ d.description.k # "null"
Unrecognized(d) ==
  /\ d.action.k = "str"
  /\ ToLower(d.action.v) \notin ActionTypeValues
  /\ \A i \in 1..Len(action_mapping) :
       ~Contains(ToLower(d.action.v), action_mapping[i][1])

\* C14: plan conversion returns a plan for every list of descriptors; the
\* steps of the plan are the descriptors that can be built, in their order
\* (so never more than the descriptors), a step with an unrecognized action
\* token is kept as a click, and the same holds for the assertions.
C14_PlanConversionTolerant ==
  (call.fn = "_convert_to_test_plan" /\ ~IsNone(ret)) =>
    LET p == Get(ret)[2]
        kept == SelectSeq(call.steps, CanBuildStep)
        keptA == SelectSeq(call.assertions, CanBuildAssertion)
    IN /\ Get(ret)[1] = "return"
       /\ Len(p.steps) <= Len(call.steps)
       /\ Len(p.steps) = Len(kept)
       /\ \A i \in 1..Len(kept) :
            /\ p.steps[i].selector = OptOf(kept[i].selector)
            /\ Unrecognized(kept[i]) => p.steps[i].action = "click"
       /\ Len(p.assertions) = Len(keptA)
       /\ \A i \in 1..Len(keptA) : p.assertions[i].selector = OptOf(keptA[i].selector)
C14_Witness ==
  /\ call.fn = "_convert_to_test_plan" /\ ~IsNone(ret)
  /\ Len(call.steps) = MaxDescriptors
  /\ Unrecognized(call.steps[1]) /\ ~CanBuildStep(call.steps[2])
  /\ Len(Get(ret)[2].steps) = 1 /\ Get(ret)[2].steps[1].action = "click"

(* ---------------------- selectors of page elements -------------------- *)
\* The fixed parts of the selectors built by getSelector.
PreTestId == <<"[","d","a","t","a","-","t","e","s","t","i","d","=","\"">>
PostTestId == <<"\"","]">>
PreHasText == <<":","h","a","s","-","t","e","x","t","(","\"">>
PostHasText == <<"\"",")">>
Hash == <<"#">>
Dot == <<".">>
Space == <<" ">>
\* Attribute values, class names and texts of the elements analysed.
TagButton == <<"B","U","T","T","O","N">>
TagA == <<"A">>
TagDiv == <<"D","I","V">>
IdSave == <<"s","a","v","e","-","b","t","n">>
TestIdSave == <<"s","a","v","e">>
ClassTwo == <<"b","t","n"," "," ","p","r","i","m","a","r","y"," ">>
ClassBlank == <<" ">>
TextSave == <<" ","S","a","v","e"," ">>
TextBlank == <<" "," ">>
TextLong == <<" "," ","S","a","v","e"," ","a","l","l"," ","c","h","a","n","g","e","s"," ","a","n","d"," ","c","o","n","t","i","n","u","e"," ","t","o"," ","c","h","e","c","k","o","u","t"," "," ">>

\* The text length kept in a text-based selector (line 70).
SelectorTextLimit == 30

RECURSIVE SplitOn(_, _)
\* String.split(sep) for a one-character separator.
SplitOn(s, sep) ==
  IF \A i \in 1..Len(s) : s[i] # sep THEN <<s>>
  ELSE LET k == Minimum({i \in 1..Len(s) : s[i] = sep})
       IN <<SubSeq(s, 1, k - 1)>> \o SplitOn(SubSeq(s, k + 1, Len(s)), sep)

RECURSIVE Join(_, _)
\* Array.join(sep)
Join(parts, sep) ==
  IF parts = <<>> THEN <<>>
  ELSE IF Len(parts) = 1 THEN parts[1]
  ELSE parts[1] \o sep \o Join(Tail(parts), sep)

\* String.trim(), for texts whose white space is the space character.
Trim(s) ==
  LET ink == {i \in 1..Len(s) : s[i] # " "}
  IN IF ink = {} THEN <<>>
     ELSE SubSeq(s, Minimum(ink), CHOOSE m \in ink : \A i \in ink : i <= m)

\* String.substring(0, n)
Substring0(s, n) == SubSeq(s, 1, IF Len(s) < n THEN Len(s) ELSE n)

\* className.split(' ').filter(c => c)
ClassList(className) == SelectSeq(SplitOn(className, " "), LAMBDA c : c # <<>>)

\* An element as getSelector reads it: tagName, dataset.testid and id (the
\* empty string when the attribute is missing or empty), className (a
\* string, or the object an SVG element has) and textContent.
Element(tagName, testid, id, className, classIsString, textContent) ==
  [tagName |-> tagName, testid |-> testid, id |-> id, className |-> className,
   classIsString |-> classIsString, textContent |-> textContent]

\* The id is tested before the test id.
getSelector_IdFirst(element) ==
  IF element.id # <<>> THEN Hash \o element.id
  ELSE IF element.testid # <<>> THEN PreTestId \o element.testid \o PostTestId
  ELSE ToLower(element.tagName)

\* getSelector of the page script (lines 54-79).
getSelector(element) ==
  IF element.testid # <<>> THEN PreTestId \o element.testid \o PostTestId
  ELSE IF element.id # <<>> THEN Hash \o element.id
  ELSE IF element.classIsString /\ element.className # <<>>
          /\ ClassList(element.className) # <<>>
    THEN Dot \o Join(ClassList(element.className), Dot)
  ELSE IF Trim(element.textContent) # <<>> /\ element.tagName = TagButton
    THEN <<"b","u","t","t","o","n">> \o PreHasText
         \o Substring0(Trim(element.textContent), SelectorTextLimit) \o PostHasText
  ELSE IF Trim(element.textContent) # <<>> /\ element.tagName = TagA
    THEN <<"a">> \o PreHasText
         \o Substring0(Trim(element.textContent), SelectorTextLimit) \o PostHasText
  ELSE ToLower(element.tagName)

Elements ==
  {Element(tag, testid, id, cls[1], cls[2], text) :
     tag \in {TagButton, TagA, TagDiv},
     testid \in {<<>>, TestIdSave},
     id \in {<<>>, IdSave},
     cls \in {<<<<>>, TRUE>>, <<ClassBlank, TRUE>>, <<ClassTwo, TRUE>>,
              <<ClassTwo, FALSE>>},
     text \in {<<>>, TextBlank, TextSave, TextLong}}

\* getSelector called on one element.
SelectorInit ==
  /\ RunIdle
  /\ test_results = {} /\ task = "none" /\ status = "" /\ runs = <<>>
  /\ \E el \in Elements : call = [fn |-> "getSelector", element |-> el]
  /\ ret = None

ComputeSelector ==
  /\ call.fn = "getSelector" /\ IsNone(ret)
  /\ ret' = Some(getSelector(call.element))
  /\ UNCHANGED <<wf_vars, pc, returned, x_vars, open_sessions, trace, exec_count,
                 heal_count, last_heal, faults, test_results, task, status, runs,
                 call>>

SelectorSpec == SelectorInit /\ [][ComputeSelector]_vars

StartsWith(s, prefix) == Len(s) >= Len(prefix) /\ SubSeq(s, 1, Len(prefix)) = prefix
EndsWith(s, suffix) ==
  Len(s) >= Len(suffix) /\ SubSeq(s, Len(s) - Len(suffix) + 1, Len(s)) = suffix

\* C15: the selector of an element is built from its test id if it has
\* one, else from its id, else from its class names joined by dots, else,
\* for a button or a link with text, from the first 30 characters of the
\* trimmed text, else it is the tag name; with both a test id and an id the
\* test id wins.
C15_SelectorPriority ==
  (call.fn = "getSelector" /\ ~IsNone(ret)) =>
    LET el == call.element
        sel == Get(ret)
        hasClass == el.classIsString /\ \E i \in 1..Len(el.className) : el.className[i] # " "
        hasText == \E i \in 1..Len(el.textContent) : el.textContent[i] # " "
    IN /\ el.testid # <<>> => sel = PreTestId \o el.testid \o PostTestId
       /\ (el.testid = <<>> /\ el.id # <<>>) => sel = Hash \o el.id
       /\ (el.testid = <<>> /\ el.id = <<>> /\ hasClass)
            => /\ StartsWith(sel, Dot)
               /\ \A i \in 1..Len(sel) : sel[i] # " "
               /\ el.className = ClassTwo => sel = <<".","b","t","n",".","p","r","i","m","a","r","y">>
       /\ (el.testid = <<>> /\ el.id = <<>> /\ ~hasClass /\ hasText
           /\ el.tagName \in {TagButton, TagA})
            => /\ StartsWith(sel, ToLower(el.tagName) \o PreHasText)
               /\ EndsWith(sel, PostHasText)
               /\ Len(sel) <= Len(el.tagName) + Len(PreHasText) + SelectorTextLimit
                                + Len(PostHasText)
               /\ el.textContent = TextSave =>
                    sel = ToLower(el.tagName) \o PreHasText \o <<"S","a","v","e">> \o PostHasText
               /\ el.textContent = TextLong =>
                    Len(sel) = Len(el.tagName) + Len(PreHasText) + SelectorTextLimit
                                 + Len(PostHasText)
       /\ (el.testid = <<>> /\ el.id = <<>> /\ ~hasClass
           /\ (~hasText \/ el.tagName \notin {TagButton, TagA}))
            => sel = ToLower(el.tagName)
C15_Witness ==
  /\ call.fn = "getSelector" /\ ~IsNone(ret)
  /\ call.element.testid = TestIdSave /\ call.element.id = IdSave
  /\ Get(ret) = PreTestId \o TestIdSave \o PostTestId

(* ------------------------- PageAnalyzer.analyze ------------------------ *)
\* The number of navigation attempts of _navigate_with_retries (261-265).
NavAttempts == 3
\* What Playwright raises during an analysis.
AnalyzeErrors == InfraErrors \cup PlanErrors

\* The PageAnalysis built from the data of the page script (181-198).
PageAnalysisOf(url) ==
  [url |-> url, title |-> "Example", fallback |-> FALSE, error |-> None,
   buttons |-> <<"#save-btn">>, inputs |-> <<"#user">>, links |-> <<>>]
\* The PageAnalysis of the except branch (206-249).
FallbackAnalysis(url, e) ==
  [url |-> url, title |-> "Page Analysis Failed - Using Fallback",
   fallback |-> TRUE, error |-> Some(e),
   buttons |-> <<"button[type='submit']">>,
   inputs |-> <<"input[type='text']", "input[type='password']">>,
   links |-> <<"a">>]

\* One call of analyze: where it is, the navigation attempt it is about to
\* make, the last navigation error, what the try statement has decided to
\* return, its browser and context, and the stages that failed.
AnalyzeCall(url, headless, at, attempt, last_error, pending, br, ctx, failed) ==
  [fn |-> "analyze", url |-> url, headless |-> headless, at |-> at, attempt |-> attempt,
   last_error |-> last_error, pending |-> pending, browser |-> br,
   context |-> ctx, failed |-> failed]

AnalyzeUnchanged ==
  UNCHANGED <<wf_vars, pc, returned, x_vars, open_sessions, trace, exec_count,
              heal_count, last_heal, faults, test_results, task, status, runs>>

\* An exception leaves analyze (and get_page_context, which has no handler).
AnalyzeRaises(stage, e) ==
  /\ call' = [call EXCEPT !.at = "done", !.failed = @ \cup {stage}]
  /\ ret' = Some(<<"raise", e>>)

\* Line 156.
AnalyzeLaunch ==
  /\ call.fn = "analyze" /\ call.at = "launch"
  /\ \/ /\ call' = [call EXCEPT !.at = "new_context", !.browser = "open"]
        /\ UNCHANGED ret
     \/ \E e \in AnalyzeErrors : AnalyzeRaises("launch", e)
  /\ AnalyzeUnchanged

\* Lines 157-163.
AnalyzeNewContext ==
  /\ call.fn = "analyze" /\ call.at = "new_context"
  /\ \/ /\ call' = [call EXCEPT !.at = "new_page", !.context = "open"]
        /\ UNCHANGED ret
     \/ \E e \in AnalyzeErrors : AnalyzeRaises("new_context", e)
  /\ AnalyzeUnchanged

\* Lines 164-166.
AnalyzeNewPage ==
  /\ call.fn = "analyze" /\ call.at = "new_page"
  /\ \/ /\ call' = [call EXCEPT !.at = "navigate"]
        /\ UNCHANGED ret
     \/ \E e \in AnalyzeErrors : AnalyzeRaises("new_page", e)
  /\ AnalyzeUnchanged

\* One turn of the loop of _navigate_with_retries (268-284): the attempt
\* succeeds, or its error is kept and, after the last attempt, raised into
\* the except branch of analyze.
AnalyzeNavigate ==
  /\ call.fn = "analyze" /\ call.at = "navigate"
  /\ \/ call' = [call EXCEPT !.at = "extract"]
     \/ \E e \in AnalyzeErrors :
          IF call.attempt < NavAttempts
            THEN call' = [call EXCEPT !.attempt = @ + 1, !.last_error = Some(e)]
            ELSE call' = [call EXCEPT !.at = "close_context",
                                      !.last_error = Some(e),
                                      !.failed = @ \cup {"navigate"},
                                      !.pending = Some(FallbackAnalysis(call.url, e))]
  /\ UNCHANGED ret
  /\ AnalyzeUnchanged

\* Lines 173-201: the waits, the page script and the conversion; an
\* exception of any of them is handled by the except branch (203-249).
AnalyzeExtract ==
  /\ call.fn = "analyze" /\ call.at = "extract"
  /\ \/ call' = [call EXCEPT !.at = "close_context",
                             !.pending = Some(PageAnalysisOf(call.url))]
     \/ \E e \in AnalyzeErrors :
          call' = [call EXCEPT !.at = "close_context",
                               !.failed = @ \cup {"extract"},
                               !.pending = Some(FallbackAnalysis(call.url, e))]
  /\ UNCHANGED ret
  /\ AnalyzeUnchanged

\* Line 251, in the finally block.
AnalyzeCloseContext ==
  /\ call.fn = "analyze" /\ call.at = "close_context"
  /\ \/ /\ call' = [call EXCEPT !.at = "close_browser", !.context = "closed"]
        /\ UNCHANGED ret
     \/ \E e \in AnalyzeErrors : AnalyzeRaises("close_context", e)
  /\ AnalyzeUnchanged

\* Line 252, then the return the try statement had decided on.
AnalyzeCloseBrowser ==
  /\ call.fn = "analyze" /\ call.at = "close_browser"
  /\ \/ /\ call' = [call EXCEPT !.at = "done", !.browser = "closed"]
        /\ ret' = Some(<<"return", Get(call.pending)>>)
     \/ \E e \in AnalyzeErrors : AnalyzeRaises("close_browser", e)
  /\ AnalyzeUnchanged

AnalyzeInit ==
  /\ RunIdle
  /\ test_results = {} /\ task = "none" /\ status = "" /\ runs = <<>>
  /\ \E headless \in BOOLEAN :
       call = AnalyzeCall(UrlExample, headless, "launch", 1, None, None,
                          "none", "none", {})
  /\ ret = None

AnalyzeNext ==
  \/ AnalyzeLaunch \/ AnalyzeNewContext \/ AnalyzeNewPage \/ AnalyzeNavigate
  \/ AnalyzeExtract \/ AnalyzeCloseContext \/ AnalyzeCloseBrowser
AnalyzeSpec == AnalyzeInit /\ [][AnalyzeNext]_vars

\* C16: analyze never hands a failure to the planner: when it is over it
\* has returned a PageAnalysis, and after a failure of the launch, of the
\* context or page creation, of all navigation attempts or of the
\* extraction, that PageAnalysis is the fallback with the generic selectors.
C16_AnalyzeNeverPropagates ==
  (call.fn = "analyze" /\ ~IsNone(ret)) =>
    /\ Get(ret)[1] = "return"
    /\ call.failed # {} =>
         /\ Get(ret)[2].fallback
         /\ Get(ret)[2].buttons = <<"button[type='submit']">>

(* ----------------------- ValidationAgent.validate ---------------------- *)
\* The results validate can be given: those execute builds, with any step
\* outcomes.
ValidateInputs ==
  {[Get(r) EXCEPT !.steps = st] :
     r \in FinalResults \ {None}, st \in SeqsUpTo(BOOLEAN, MaxSteps)}

ValidateInit ==
  /\ RunIdle
  /\ test_results = {} /\ task = "none" /\ status = "" /\ runs = <<>>
  /\ \E r \in ValidateInputs, a \in AnalysisOutcomes :
       call = [fn |-> "validate", result |-> r, analysis |-> a]
  /\ ret = None

ValidateCall ==
  /\ call.fn = "validate" /\ IsNone(ret)
  /\ ret' = Some(validate(call.result, call.analysis))
  /\ UNCHANGED <<wf_vars, pc, returned, x_vars, open_sessions, trace, exec_count,
                 heal_count, last_heal, faults, test_results, task, status, runs,
                 call>>

ValidateSpec == ValidateInit /\ [][ValidateCall]_vars

\* C17: validate always returns a result, and when an internal error
\* occurred the result it returns is the one it was given, with the same
\* error text and the same counts.
C17_ValidateNeverRaises ==
  (call.fn = "validate" /\ ~IsNone(ret)) =>
    /\ Get(ret).id = call.result.id
    /\ Get(ret).success = call.result.success
    /\ call.analysis = "raised" =>
         /\ Get(ret).error = call.result.error
         /\ Get(ret).passed_assertions = call.result.passed_assertions
         /\ Get(ret).failed_assertions = call.result.failed_assertions
         /\ Get(ret) = call.result
C17_Witness ==
  /\ call.fn = "validate" /\ ~IsNone(ret)
  /\ call.analysis = "raised"
  /\ ~call.result.success /\ Truthy(call.result.error)
  /\ call.result.steps = <<TRUE, FALSE>>
  /\ Get(ret) = call.result
  /\ Get(ret) # Enhanced(call.result)

(* --------------------- TestGenerationAgent.generate -------------------- *)
GenerateInit ==
  /\ RunIdle
  /\ test_results = {} /\ task = "none" /\ status = "" /\ runs = <<>>
  \* The valid plans: what plan conversion builds from the descriptors.
  /\ \E st \in SeqsUpTo(StepDescriptors, MaxDescriptors),
        as \in SeqsUpTo(AssertionDescriptors, 1),
        llm \in LLMOutcomes :
       call = [fn |-> "generate",
               plan |-> _convert_to_test_plan([steps |-> st, assertions |-> as],
                                              UrlExample)[2],
               llm |-> llm]
  /\ ret = None

GenerateCall ==
  /\ call.fn = "generate" /\ IsNone(ret)
  /\ ret' = Some(generate(call.plan, call.llm))
  /\ UNCHANGED <<wf_vars, pc, returned, x_vars, open_sessions, trace, exec_count,
                 heal_count, last_heal, faults, test_results, task, status, runs,
                 call>>

GenerateSpec == GenerateInit /\ [][GenerateCall]_vars

\* The code is the test template around the body.
IsWrapped(code, body) ==
  /\ Len(code) = Len(body) + 1
  /\ code[1].call = "import"
  /\ SubSeq(code, 2, Len(code)) = body

\* C18: generate returns code for every valid plan; when the model call
\* succeeded the code is the model's output inside the test template, and
\* the fallback code is returned only when the model call failed.
C18_ModelOutputIsWrapped ==
  (call.fn = "generate" /\ ~IsNone(ret)) =>
    /\ Get(ret)[1] = "return"
    /\ ~call.llm.raised => IsWrapped(Get(ret)[2], call.llm.content)
    /\ Get(ret)[2] = _generate_fallback_code(call.plan) => call.llm.raised

(* -------------------- the edges out of execute and validate ------------ *)
\* The step in which the execute state produces its result.
ExecuteProduces == pc = "execute" /\ pc' \notin {"execute", "raised"}

\* C19: a result with success = false produced by execute while
\* retry_count < 3 is followed by heal, whatever its error text is.
C19_FailedResultGoesToHeal ==
  [][(ExecuteProduces /\ ~IsNone(result') /\ ~Get(result').success
        /\ retry_count < MaxRetries)
       => pc' = "heal"]_vars

\* C20: a result with success = true produced by execute is followed by
\* validate whatever retry_count is, and validate is always followed by the
\* terminal state, whatever the outcome of the validation was.
C20_PassedResultGoesToValidate ==
  [][/\ (ExecuteProduces /\ ~IsNone(result') /\ Get(result').success)
          => pc' = "validate"
     /\ pc = "validate" => pc' = "end"]_vars

\* A run passed on a retry, was validated and reached the terminal state.
C20_Witness ==
  /\ pc = "end" /\ retry_count > 0
  /\ Entered("validate") /\ current_step = "validation_complete"
  /\ ~IsNone(result) /\ Get(result).success

(* ---------------------- the edges plan -> generate -> execute ---------- *)
\* C21: after the plan state the engine enters generate, and after generate
\* it enters execute, whether the handler succeeded or recorded a failure.
C21_PlanGenerateExecuteInOrder ==
  [][/\ pc = "plan" => pc' = "generate"
     /\ pc = "generate" => pc' = "execute"]_vars

\* The plan handler and the generate handler both recorded a failure, and
\* execute is entered with no plan and no generated code.
C21_Witness ==
  /\ pc = "execute" /\ xpc = "idle" /\ exec_count = 0
  /\ IsNone(plan) /\ IsNone(generated_code)
  /\ current_step = "generation_failed" /\ Len(errors) = 2
  /\ trace = <<"plan", "generate", "execute">>

(* ----------------------- failures inside a handler --------------------- *)
Handlers == {"plan", "generate", "execute", "validate", "heal"}

\* The label a handler's except branch writes to current_step.
FailedLabel(n) ==
  CASE n = "plan" -> "planning_failed"
    [] n = "generate" -> "generation_failed"
    [] n = "execute" -> "execution_failed"
    [] n = "validate" -> "validation_failed"
    [] n = "heal" -> "healing_failed"

\* The WorkflowState values a handler is entered with.
HandlerStates ==
  {[request |-> Some(req), session_id |-> req.session_id,
    plan |-> p, generated_code |-> c, result |-> r, errors |-> es,
    current_step |-> "", retry_count |-> rc] :
     req \in Requests,
     p \in {None, Some(LoginPlan(UrlExample))},
     c \in {None, Some(_generate_fallback_code(LoginPlan(UrlExample)))},
     r \in {None, Some(NormalResult([url |-> UrlExample, session_id |-> None],
                                    FALSE, Some(TxtBoom), <<>>, None))},
     es \in {<<>>, <<TxtBoom>>},
     rc \in {0, MaxRetries - 1}}

\* What the agent call awaited by a handler does: it returns, or it raises
\* an exception with a text.
HandlerErrors == {TxtBoom, TxtEmpty, TxtNoneName}
AgentOutcomes == {<<"return">>} \cup {<<"raise", e>> : e \in HandlerErrors}

\* The except branch reports its own failure only.
NodeExcept_ResetsErrors(st, n, e) ==
  [st EXCEPT !.errors = <<e>>, !.current_step = FailedLabel(n)]
\* The except branch of _plan_node, _generate_node, _validate_node and
\* _heal_node: the state after the partial update is merged.
NodeExcept(st, n, e) ==
  [st EXCEPT !.errors = Append(st.errors, e), !.current_step = FailedLabel(n)]

\* One handler on a state and on the outcome of its agent call:
\* <<"return", merged state>>, or <<"raise", text>> when an exception leaves
\* the handler.  The except branch of _execute_node builds a TestResult
\* (lines 123-132), whose constructor validates its fields.
Handler(n, st, o) ==
  IF o[1] = "raise"
    THEN IF n = "execute"
           THEN IF ValidTestResult(NodeErrorResult(st.plan, o[2]))
                  THEN <<"return",
                         [NodeExcept(st, n, o[2]) EXCEPT
                            !.result = Some(NodeErrorResult(st.plan, o[2]))]>>
                  ELSE <<"raise", TxtValidation>>
           ELSE <<"return", NodeExcept(st, n, o[2])>>
  ELSE CASE n = "plan" ->
              <<"return", [st EXCEPT !.plan = Some(LoginPlan(UrlExample)),
                                     !.current_step = "planning_complete"]>>
         [] n = "generate" ->
              <<"return", [st EXCEPT
                 !.generated_code = Some(_generate_fallback_code(Get(st.plan))),
                 !.current_step = "generation_complete"]>>
         [] n = "execute" ->
              <<"return", [st EXCEPT
                 !.result = Some(NormalResult([url |-> UrlExample, session_id |-> None],
                                              TRUE, None, <<>>, None)),
                 !.current_step = "execution_complete"]>>
         [] n = "validate" ->
              <<"return", [st EXCEPT
                 !.result = Some(validate(Get(st.result), "content")),
                 !.current_step = "validation_complete"]>>
         [] n = "heal" ->
              <<"return", [st EXCEPT
                 !.generated_code = Some(_generate_fallback_code(LoginPlan(UrlExample))),
                 !.retry_count = NextRetryCount(st.retry_count),
                 !.current_step = "healing_complete"]>>

\* The edge the compiled graph follows out of node n on the merged state.
EdgeAfter(n, st) ==
  CASE n = "plan" -> "generate"
    [] n = "generate" -> "execute"
    [] n = "execute" -> _route_after_execution(st.result, st.retry_count)
    [] n = "validate" -> "end"
    [] n = "heal" -> _route_after_healing(st.retry_count)

\* The handler can be entered in st with this outcome of its agent call:
\* generate reads plan.id and heal and validate read the result, so without
\* them the agent call raises.
HandlerCase(n, st, o) ==
  /\ (n = "generate" /\ IsNone(st.plan)) => o[1] = "raise"
  /\ (n \in {"validate", "heal"} /\ IsNone(st.result)) => o[1] = "raise"

HandlerInit ==
  /\ RunIdle
  /\ test_results = {} /\ task = "none" /\ status = "" /\ runs = <<>>
  /\ \E n \in Handlers, st \in HandlerStates, o \in AgentOutcomes :
       /\ HandlerCase(n, st, o)
       /\ call = [fn |-> "handler", node |-> n, state |-> st, outcome |-> o]
  /\ ret = None

\* The engine calls the handler and, when it returned, follows the edge.
HandlerCall ==
  /\ call.fn = "handler" /\ IsNone(ret)
  /\ LET r == Handler(call.node, call.state, call.outcome)
     IN ret' = Some(IF r[1] = "return"
                      THEN <<"return", r[2], EdgeAfter(call.node, r[2])>>
                      ELSE r)
  /\ UNCHANGED <<wf_vars, pc, returned, x_vars, open_sessions, trace, exec_count,
                 heal_count, last_heal, faults, test_results, task, status, runs,
                 call>>

HandlerSpec == HandlerInit /\ [][HandlerCall]_vars

\* C22: a handler whose agent call fails does not crash the engine: it
\* returns a partial update that appends the failure text to errors and sets
\* current_step to the state's failed label, and routing proceeds; a state
\* left without its required output (no plan after plan) is routed to the
\* terminal state.
C22_HandlerFailureIsContained ==
  (call.fn = "handler" /\ ~IsNone(ret) /\ call.outcome[1] = "raise") =>
    /\ Get(ret)[1] = "return"
    /\ Get(ret)[2].errors = Append(call.state.errors, call.outcome[2])
    /\ Get(ret)[2].current_step = FailedLabel(call.node)
    /\ (call.node = "plan" /\ IsNone(Get(ret)[2].plan)) => Get(ret)[3] = "end"

\* The part of C22 that holds for every handler but execute: the failure
\* text is appended, the step is marked failed, nothing else changes.
HandlerFailureRecorded ==
  (call.fn = "handler" /\ ~IsNone(ret) /\ call.outcome[1] = "raise"
     /\ call.node # "execute") =>
    /\ Get(ret)[1] = "return"
    /\ Get(ret)[2] = NodeExcept(call.state, call.node, call.outcome[2])

\* The except branch of _execute_node never returns.
ExecuteHandlerFailureCrashes ==
  (call.fn = "handler" /\ ~IsNone(ret) /\ call.outcome[1] = "raise"
     /\ call.node = "execute") => Get(ret)[1] = "raise"

(* ------------------ PageAnalyzer._navigate_with_retries ---------------- *)
\* Lines 261-265: the strategies, in the order they are tried.
attempts ==
  <<[wait_until |-> "domcontentloaded", timeout |-> 60000],
    [wait_until |-> "commit", timeout |-> 90000],
    [wait_until |-> "load", timeout |-> 120000]>>

\* What page.goto raises: PlaywrightTimeoutError and other exceptions.
GotoErrors == {TxtTimeoutUpper, TxtNavigationTimeout, TxtGotoFailed, TxtBoom}

\* The first error is kept and later ones are ignored.
KeepError_First(last_error, e) == IF IsNone(last_error) THEN Some(e) ELSE last_error
\* Lines 277 and 282: last_error = e.
KeepError(last_error, e) == Some(e)

NavigateInit ==
  /\ RunIdle
  /\ test_results = {} /\ task = "none" /\ status = "" /\ runs = <<>>
  /\ call = [fn |-> "navigate", url |-> UrlExample, i |-> 1, made |-> <<>>,
             outcomes |-> <<>>, last_error |-> None]
  /\ ret = None

NavigateUnchanged ==
  UNCHANGED <<wf_vars, pc, returned, x_vars, open_sessions, trace, exec_count,
              heal_count, last_heal, faults, test_results, task, status, runs>>

\* Lines 268-282: one turn of the loop.  page.goto is called with the
\* strategy of the turn; it returns, and so does the function, or it raises
\* and the error is kept.
NavigateGoto ==
  /\ call.fn = "navigate" /\ IsNone(ret) /\ call.i <= Len(attempts)
  /\ \/ /\ call' = [call EXCEPT !.made = Append(@, attempts[call.i]),
                                !.outcomes = Append(@, <<"ok">>)]
        /\ ret' = Some(<<"return">>)
     \/ \E e \in GotoErrors :
          /\ call' = [call EXCEPT !.made = Append(@, attempts[call.i]),
                                  !.outcomes = Append(@, <<"raise", e>>),
                                  !.last_error = KeepError(call.last_error, e),
                                  !.i = @ + 1]
          /\ UNCHANGED ret
  /\ NavigateUnchanged

\* Lines 283-284, after the loop: the kept error is raised.
NavigateAfterLoop ==
  /\ call.fn = "navigate" /\ IsNone(ret) /\ call.i > Len(attempts)
  /\ ret' = Some(IF ~IsNone(call.last_error)
                   THEN <<"raise", Get(call.last_error)>>
                   ELSE <<"return">>)
  /\ UNCHANGED call
  /\ NavigateUnchanged

NavigateNext == NavigateGoto \/ NavigateAfterLoop
NavigateSpec == NavigateInit /\ [][NavigateNext]_vars

\* C23: navigation makes at most three attempts, in the order DOM-content
\* wait, first-commit wait, full-load wait, with strictly increasing
\* timeouts; it stops at the first attempt that succeeds; when all three
\* failed the error raised is the error of the third attempt.
C23_NavigationRetries ==
  call.fn = "navigate" =>
    /\ Len(call.made) <= 3
    /\ \A k \in 1..Len(call.made) :
         call.made[k].wait_until = <<"domcontentloaded", "commit", "load">>[k]
    /\ \A k \in 1..(Len(call.made) - 1) :
         /\ call.made[k].timeout < call.made[k + 1].timeout
         /\ call.outcomes[k][1] = "raise"
    /\ (Len(call.made) > 0 /\ call.outcomes[Len(call.made)][1] = "ok") =>
         ~IsNone(ret) /\ Get(ret) = <<"return">>
    /\ ~IsNone(ret) =>
         IF Get(ret)[1] = "return"
           THEN call.outcomes[Len(call.made)][1] = "ok"
           ELSE /\ Len(call.made) = 3
                /\ \A k \in 1..3 : call.outcomes[k][1] = "raise"
                /\ Get(ret)[2] = call.outcomes[3][2]

\* All three attempts failed with different errors and the third is raised.
C23_Witness ==
  /\ call.fn = "navigate" /\ ~IsNone(ret) /\ Get(ret)[1] = "raise"
  /\ Len(call.made) = 3
  /\ call.outcomes[1][2] # call.outcomes[3][2]
  /\ call.outcomes[2][2] # call.outcomes[3][2]

(* ------------- the navigation repair and the timeout fallback ---------- *)
\* The statements of the test codes the transforms are applied to.
GotoLine == Line("goto", <<UrlExample>>, TRUE, FALSE)
GotoLineNoSemi == Line("goto", <<UrlExample>>, FALSE, FALSE)
ClickLine == [Line("click", <<SelSubmit>>, TRUE, FALSE) EXCEPT !.timeout = 5000]
RepairLines == {GotoLine, GotoLineNoSemi, ClickLine, WaitNetworkIdle(FALSE)}
RepairCodes == SeqsUpTo(RepairLines, MaxLines)

RepairInit ==
  /\ RunIdle
  /\ test_results = {} /\ task = "none" /\ status = "" /\ runs = <<>>
  /\ \E fn \in {"_fix_navigation_error", "_apply_fallback_timeout_fix"},
        c \in RepairCodes :
       call = [fn |-> fn, test_code |-> c, again |-> None]
  /\ ret = None

RepairUnchanged ==
  UNCHANGED <<wf_vars, pc, returned, x_vars, open_sessions, trace, exec_count,
              heal_count, last_heal, faults, test_results, task, status, runs>>

FixNavigation ==
  /\ call.fn = "_fix_navigation_error" /\ IsNone(ret)
  /\ ret' = Some(_fix_navigation_error(call.test_code))
  /\ UNCHANGED call
  /\ RepairUnchanged

\* The repair applied to its own output.
FixNavigationAgain ==
  /\ call.fn = "_fix_navigation_error" /\ ~IsNone(ret) /\ IsNone(call.again)
  /\ call' = [call EXCEPT !.again = Some(_fix_navigation_error(Get(ret)))]
  /\ UNCHANGED ret
  /\ RepairUnchanged

FixTimeout ==
  /\ call.fn = "_apply_fallback_timeout_fix" /\ IsNone(ret)
  /\ ret' = Some(_apply_fallback_timeout_fix(call.test_code))
  /\ UNCHANGED call
  /\ RepairUnchanged

RepairNext == FixNavigation \/ FixNavigationAgain \/ FixTimeout
RepairSpec == RepairInit /\ [][RepairNext]_vars

IsGoto(l) == l.call = "goto"
IsWait(l) == l.call = "waitForLoadState"
\* Some wait-for-load-state call comes after every navigation call.
WaitFollowsEveryGoto(code) ==
  \A i \in 1..Len(code) :
    IsGoto(code[i]) => \E j \in (i + 1)..Len(code) : IsWait(code[j])

\* C24: the navigation repair is idempotent, and after one application a
\* wait-for-load-state call follows every navigation call of the code.
C24_NavigationRepair ==
  (call.fn = "_fix_navigation_error" /\ ~IsNone(ret)) =>
    /\ WaitFollowsEveryGoto(Get(ret))
    /\ ~IsNone(call.again) => Get(call.again) = Get(ret)

\* The part of C24 that holds: the repair applied to its output changes
\* nothing, and it adds at most one wait.
NavigationRepairIdempotent ==
  (call.fn = "_fix_navigation_error" /\ ~IsNone(ret)) =>
    /\ Len(Get(ret)) <= Len(call.test_code) + 1
    /\ ~IsNone(call.again) => Get(call.again) = Get(ret)

\* Exactly one wait for network idle comes right after every navigation call.
OneWaitAfterEveryGoto(code) ==
  \A i \in 1..Len(code) :
    IsGoto(code[i]) =>
      /\ i < Len(code) /\ code[i + 1] = WaitNetworkIdle(FALSE)
      /\ (i + 2 <= Len(code)) => ~IsWait(code[i + 2])

\* The code but for the values of its timeouts.
Untimed(code) == [i \in 1..Len(code) |-> [code[i] EXCEPT !.timeout = 0]]

\* C25: the timeout fallback doubles every numeric timeout of the code and
\* leaves exactly one wait for network idle right after every navigation
\* call; nothing else is changed.
C25_TimeoutFallback ==
  (call.fn = "_apply_fallback_timeout_fix" /\ ~IsNone(ret)) =>
    LET out == Get(ret)
        kept == SelectSeq(out, LAMBDA l : ~IsWait(l))
        was == SelectSeq(call.test_code, LAMBDA l : ~IsWait(l))
    IN /\ OneWaitAfterEveryGoto(out)
       /\ Untimed(kept) = Untimed(was)
       /\ \A i \in 1..Len(was) : kept[i].timeout = 2 * was[i].timeout

\* The part of C25 that holds: the timeouts are doubled and no statement
\* but waits is added or removed.
TimeoutsDoubled ==
  (call.fn = "_apply_fallback_timeout_fix" /\ ~IsNone(ret)) =>
    LET kept == SelectSeq(Get(ret), LAMBDA l : ~IsWait(l))
        was == SelectSeq(call.test_code, LAMBDA l : ~IsWait(l))
    IN /\ Untimed(kept) = Untimed(was)
       /\ \A i \in 1..Len(was) : kept[i].timeout = 2 * was[i].timeout

(* --------------- the vocabulary of actions and assertion types --------- *)
\* The action tokens of a descriptor: the ActionType values, the variations
\* of action_mapping, and tokens in another letter case, with two
\* variations, and with none.
Variations == {action_mapping[i][1] : i \in 1..Len(action_mapping)}
ActionTokens ==
  ActionTypeValues \cup Variations \cup {TokClickCaps, TokPressEnter, TokBogus}
TypVisibleCaps == <<"V","i","s","i","b","l","e">>
TypeTokens == AssertionTypeValues \cup {TypShown, TypVisibleCaps}

TokensInit ==
  /\ RunIdle
  /\ test_results = {} /\ task = "none" /\ status = "" /\ runs = <<>>
  /\ \E a \in ActionTokens, t \in TypeTokens :
       call = [fn |-> "_convert_to_test_plan",
               output |-> [steps |-> <<StepData(JStr(a), SelA, JStr(<<>>))>>,
                           assertions |-> <<AssertionData(JStr(t), SelB, JAbsent)>>],
               url |-> UrlExample]
  /\ ret = None

\* _convert_to_test_plan on an output of one step and one assertion.
ConvertTokens ==
  /\ call.fn = "_convert_to_test_plan" /\ IsNone(ret)
  /\ ret' = Some(_convert_to_test_plan(call.output, call.url))
  /\ UNCHANGED <<wf_vars, pc, returned, x_vars, open_sessions, trace, exec_count,
                 heal_count, last_heal, faults, test_results, task, status, runs,
                 call>>

TokensSpec == TokensInit /\ [][ConvertTokens]_vars

ActionNames ==
  {"navigate", "click", "type", "wait", "screenshot", "select", "hover",
   "scroll", "assert"}
\* The canonical action of a variation of the table.
AliasTarget(tok) ==
  action_mapping[CHOOSE i \in 1..Len(action_mapping) : action_mapping[i][1] = tok][2]

\* C26: the action of a converted step is in the closed vocabulary: an
\* alias token gives its canonical action, a canonical token is kept, any
\* other token gives click; an unrecognized assertion type gives visible.
C26_ClosedVocabulary ==
  (call.fn = "_convert_to_test_plan" /\ ~IsNone(ret)) =>
    LET tok == call.output.steps[1].action.v
        typ == call.output.assertions[1].type.v
        p == Get(ret)[2]
    IN /\ Len(p.steps) = 1 /\ Len(p.assertions) = 1
       /\ p.steps[1].action \in ActionNames
       /\ tok \in Variations => p.steps[1].action = EnumOf(AliasTarget(tok))
       /\ tok \in ActionTypeValues => p.steps[1].action = EnumOf(tok)
       /\ (ToLower(tok) \notin ActionTypeValues
             /\ \A v \in Variations : ~Contains(ToLower(tok), v))
            => p.steps[1].action = "click"
       /\ typ \notin AssertionTypeValues => p.assertions[1].type = "visible"

\* The alias "fill" became type, and an unknown assertion type visible.
C26_Witness ==
  /\ call.fn = "_convert_to_test_plan" /\ ~IsNone(ret)
  /\ call.output.steps[1].action.v = <<"f","i","l","l">>
  /\ Get(ret)[2].steps[1].action = "type"
  /\ call.output.assertions[1].type.v = TypShown
  /\ Get(ret)[2].assertions[1].type = "visible"

(* ------------------------ the fallback assembly ------------------------ *)
\* Plans with steps of every action kind, and with assertions of the kinds
\* visible and text, of another kind (value), and without a selector.
FallbackSteps == {Step(a, Some(SelSubmit), Some(ValAlice)) : a \in ActionNames}
FallbackAssertions ==
  {[type |-> t, selector |-> Some(SelUserName)] : t \in {"visible", "text", "other"}}
  \cup {[type |-> "visible", selector |-> None]}
FallbackPlans ==
  {[id |-> Sid("plan", 1), url |-> UrlExample, steps |-> st, assertions |-> as] :
     st \in SeqsUpTo(FallbackSteps, MaxPlanItems),
     as \in SeqsUpTo(FallbackAssertions, MaxPlanItems)}

FallbackInit ==
  /\ RunIdle
  /\ test_results = {} /\ task = "none" /\ status = "" /\ runs = <<>>
  /\ \E p \in FallbackPlans : call = [fn |-> "_generate_fallback_code", plan |-> p]
  /\ ret = None

FallbackCall ==
  /\ call.fn = "_generate_fallback_code" /\ IsNone(ret)
  /\ ret' = Some(_generate_fallback_code(call.plan))
  /\ UNCHANGED <<wf_vars, pc, returned, x_vars, open_sessions, trace, exec_count,
                 heal_count, last_heal, faults, test_results, task, status, runs,
                 call>>

FallbackSpec == FallbackInit /\ [][FallbackCall]_vars

\* The statements of a code, its comment lines left out.
Statements(code) == SelectSeq(code, LAMBDA l : l.call # "comment")

\* The head of the fallback code and its step lines: the navigation to
\* plan.url, the wait, then one line per step, in plan order.
FallbackHeadAndSteps(p, code) ==
  /\ Len(code) >= 4 + Len(p.steps)
  /\ code[1].call = "comment" /\ code[2].call = "comment"
  /\ code[3].call = "goto" /\ code[3].args = <<p.url>>
  /\ code[4] = WaitNetworkIdle(FALSE)
  /\ \A i \in 1..Len(p.steps) : code[4 + i] = get_step_template(p.steps[i])

\* C27: the fallback code starts with the navigation to plan.url and the
\* wait for network idle, then has exactly one snippet per step and exactly
\* one assertion line per assertion, in plan order, for every action kind
\* and every assertion kind.
C27_FallbackAssembly ==
  (call.fn = "_generate_fallback_code" /\ ~IsNone(ret)) =>
    LET p == call.plan
        code == Get(ret)
        n == 4 + Len(p.steps)
    IN /\ FallbackHeadAndSteps(p, code)
       /\ Len(code) = n + Len(p.assertions)
       /\ \A j \in 1..Len(p.assertions) : code[n + j].call = "expect"

\* The part of C27 that holds: head and steps, and no more assertion lines
\* than assertions.
FallbackStepsAssembled ==
  (call.fn = "_generate_fallback_code" /\ ~IsNone(ret)) =>
    /\ FallbackHeadAndSteps(call.plan, Get(ret))
    /\ Len(Get(ret)) <= 4 + Len(call.plan.steps) + Len(call.plan.assertions)

(* ------------------- the step counts and the category ------------------ *)
\* C28: after a validate call that completed without internal error,
\* passed_assertions is the number of step results with success = true,
\* failed_assertions the number with success = false, and their sum is the
\* number of step results.
C28_StepCounts ==
  (call.fn = "validate" /\ ~IsNone(ret) /\ call.analysis # "raised") =>
    LET st == call.result.steps IN
    /\ Get(ret).passed_assertions = Cardinality({i \in 1..Len(st) : st[i]})
    /\ Get(ret).failed_assertions = Cardinality({i \in 1..Len(st) : ~st[i]})
    /\ Get(ret).passed_assertions + Get(ret).failed_assertions = Len(Get(ret).steps)

\* One step result passed and one failed.
C28_Witness ==
  /\ call.fn = "validate" /\ ~IsNone(ret) /\ call.analysis = "content"
  /\ call.result.steps = <<TRUE, FALSE>>
  /\ Get(ret).passed_assertions = 1 /\ Get(ret).failed_assertions = 1

\* Error texts with one keyword, with several in an order other than the
\* order of the table, in another letter case, and with none.
TxtNetworkNavigation == <<"n","e","t","w","o","r","k"," ","d","o","w","n"," ","d","u","r","i","n","g"," ","N","a","v","i","g","a","t","i","o","n">>
TxtNetwork == <<"N","e","t","w","o","r","k"," ","u","n","r","e","a","c","h","a","b","l","e">>
TxtAssertionNotFound == <<"A","s","s","e","r","t","i","o","n",":"," ","e","l","e","m","e","n","t"," ","n","o","t"," ","f","o","u","n","d">>
TxtElementNotFound == <<"E","l","e","m","e","n","t"," ","N","o","t"," ","F","o","u","n","d",":"," ","#","x">>
TxtFillAfterClick == <<"f","i","l","l"," ","f","a","i","l","e","d"," ","a","f","t","e","r"," ","c","l","i","c","k">>
TxtFill == <<"c","a","n","n","o","t"," ","F","I","L","L"," ","f","i","e","l","d">>
TxtClickSelector == <<"c","l","i","c","k"," ","o","n"," ","s","e","l","e","c","t","o","r"," ","f","a","i","l","e","d">>
TxtAssertionFill == <<"f","i","l","l"," ","a","s","s","e","r","t","i","o","n">>
CategoryTexts ==
  {TxtNetworkNavigation, TxtNetwork, TxtAssertionNotFound, TxtElementNotFound,
   TxtFillAfterClick, TxtFill, TxtClickSelector, TxtAssertionFill,
   TxtTimeoutSelector, TxtTimeoutUpper, TxtNavigationTimeout, TxtBoom, TxtEmpty}

\* The results validate is given: passed or failed, with any error text or
\* none.
CategoryInputs ==
  {NormalResult([url |-> UrlExample, session_id |-> None], ok, e, <<>>, None) :
     ok \in BOOLEAN, e \in {None} \cup {Some(t) : t \in CategoryTexts}}

CategoryInit ==
  /\ RunIdle
  /\ test_results = {} /\ task = "none" /\ status = "" /\ runs = <<>>
  /\ \E r \in CategoryInputs, a \in AnalysisOutcomes :
       call = [fn |-> "validate", result |-> r, analysis |-> a]
  /\ ret = None

CategorySpec == CategoryInit /\ [][ValidateCall]_vars

\* The keywords and their categories, in the order of the claim.
KeywordOrder ==
  <<<<KwTimeout, CatTimeout>>, <<KwSelector, CatSelector>>,
    <<KwNavigation, CatNavigation>>, <<KwNetwork, CatNetwork>>,
    <<KwAssertion, CatAssertion>>, <<KwElementNotFound, CatElementNotFound>>,
    <<KwClick, CatInteraction>>, <<KwFill, CatInput>>>>
\* cat is the category of the first keyword of the order found in text, or
\* the default when none is found.
IsFirstCategory(cat, text) ==
  \/ \E i \in 1..Len(KeywordOrder) :
       /\ Contains(text, KeywordOrder[i][1])
       /\ \A j \in 1..(i - 1) : ~Contains(text, KeywordOrder[j][1])
       /\ cat = KeywordOrder[i][2]
  \/ /\ \A i \in 1..Len(KeywordOrder) : ~Contains(text, KeywordOrder[i][1])
     /\ cat = CatDefault

\* C29: validate prefixes the error text with a category only when the
\* result failed and has a non-empty error text; the category is that of
\* the first keyword of the order found in the lower-cased text, or the
\* default; the error of a passed result is left unchanged.
C29_CategoryPrefix ==
  (call.fn = "validate" /\ ~IsNone(ret)) =>
    LET r == call.result
        out == Get(ret)
    IN /\ out.error # r.error => (~r.success /\ Truthy(r.error))
       /\ r.success => out.error = r.error
       /\ (~r.success /\ Truthy(r.error) /\ call.analysis # "raised") =>
            \E cat \in {KeywordOrder[i][2] : i \in 1..Len(KeywordOrder)} \cup {CatDefault} :
              /\ IsFirstCategory(cat, ToLower(Get(r.error)))
              /\ out.error = Some(cat \o ColonSpace \o Get(r.error))

\* A text with the keywords selector and timeout got the timeout category.
C29_Witness ==
  /\ call.fn = "validate" /\ ~IsNone(ret) /\ call.analysis = "content"
  /\ ~call.result.success /\ call.result.error = Some(TxtTimeoutSelector)
  /\ Get(ret).error = Some(CatTimeout \o ColonSpace \o TxtTimeoutSelector)

(* -------------------- PageAnalyzer.format_for_prompt ------------------- *)
Newline == <<"\n">>
Arrow == <<" ","-",">"," ">>
\* seq[:n]
Take(q, n) == SubSeq(q, 1, IF Len(q) < n THEN Len(q) ELSE n)
\* `x or 'text'` for an Optional[str]
OrText(o) == IF Truthy(o) THEN Get(o) ELSE <<"t","e","x","t">>
\* str(i) for the form numbers
FormNumber(i) == <<<<"0">>, <<"1">>, <<"2">>, <<"3">>, <<"4">>, <<"5">>, <<"6">>,
                   <<"7">>, <<"8">>, <<"9">>>>[i + 1]

RECURSIVE Concat(_)
\* The concatenation of a sequence of sequences.
Concat(qq) == IF qq = <<>> THEN <<>> ELSE Head(qq) \o Concat(Tail(qq))

\* Lines 305-312: the line of one input of a form (a dict).
FormInputLine(inp) ==
  <<" "," "," "," ","-"," ">> \o OrText(inp.type) \o <<" ","i","n","p","u","t">>
  \o (IF Truthy(inp.name) THEN <<" ","(","n","a","m","e",":"," ">> \o Get(inp.name) \o <<")">> ELSE <<>>)
  \o (IF Truthy(inp.placeholder)
        THEN <<" ","[","p","l","a","c","e","h","o","l","d","e","r",":"," ">> \o Get(inp.placeholder) \o <<"]">> ELSE <<>>)
  \o Arrow \o inp.selector

\* Lines 299-319: the lines of form number i.
FormLines(form, i) ==
  <<<<"\n","F","o","r","m"," ">> \o FormNumber(i) \o <<":">>>>
  \o (IF Truthy(form.id) THEN <<<<" "," ","I","D",":"," ">> \o Get(form.id)>> ELSE <<>>)
  \o <<<<" "," ","I","n","p","u","t","s",":">>>>
  \o [k \in 1..Len(Take(form.inputs, 5)) |-> FormInputLine(form.inputs[k])]
  \o (IF form.buttons # <<>>
        THEN <<<<" "," ","S","u","b","m","i","t"," ","b","u","t","t","o","n","s",":">>>>
             \o [k \in 1..Len(Take(form.buttons, 2)) |->
                   <<" "," "," "," ","-"," ">> \o form.buttons[k].text \o Arrow \o form.buttons[k].selector]
        ELSE <<>>)

\* Lines 322-326 and 337-341: the lines of the elements that have a text.
TextLines(elements, cap, limit) ==
  LET shown == SelectSeq(Take(elements, cap), LAMBDA e : Truthy(e.text))
  IN [k \in 1..Len(shown) |->
        <<" "," ","-"," ">> \o Take(Get(shown[k].text), limit) \o Arrow \o shown[k].selector]

\* Lines 328-335: the line of an input outside the forms.
InputLine(inp) ==
  <<" "," ","-"," ">> \o OrText(inp.type)
  \o (IF Truthy(inp.placeholder) THEN <<" ", "[">> \o Get(inp.placeholder) \o <<"]">>
      ELSE <<>>)
  \o Arrow \o inp.selector

\* PageAnalyzer.format_for_prompt: the parts, then "\n".join(prompt_parts).
PromptParts(analysis) ==
  <<<<"P","a","g","e"," ","U","R","L",":"," ">> \o analysis.url, <<"P","a","g","e"," ","T","i","t","l","e",":"," ">> \o analysis.title, <<>>>>
  \o (IF Truthy(analysis.meta_description)
        THEN <<<<"D","e","s","c","r","i","p","t","i","o","n",":"," ">> \o Get(analysis.meta_description) \o Newline>> ELSE <<>>)
  \o (IF analysis.forms # <<>>
        THEN <<<<"F","O","R","M","S"," ","F","O","U","N","D",":">>>>
             \o Concat([i \in 1..Len(analysis.forms) |-> FormLines(analysis.forms[i], i)])
        ELSE <<>>)
  \o (IF analysis.buttons # <<>>
        THEN <<<<"\n","K","E","Y"," ","B","U","T","T","O","N","S",":">>>> \o TextLines(analysis.buttons, 10, 50) ELSE <<>>)
  \o (IF analysis.inputs # <<>> /\ analysis.forms = <<>>
        THEN <<<<"\n","I","N","P","U","T"," ","F","I","E","L","D","S",":">>>>
             \o [k \in 1..Len(Take(analysis.inputs, 10)) |-> InputLine(analysis.inputs[k])]
        ELSE <<>>)
  \o (IF analysis.navigation # <<>>
        THEN <<<<"\n","N","A","V","I","G","A","T","I","O","N"," ","L","I","N","K","S",":">>>> \o TextLines(analysis.navigation, 8, 30) ELSE <<>>)
  \o <<<<"\n","P","A","G","E"," ","S","T","R","U","C","T","U","R","E",":">>, analysis.page_structure>>

format_for_prompt(analysis) == Join(PromptParts(analysis), Newline)

\* The elements the page script extracts (extractElement): the text, the
\* type and the placeholder of the element and the selector getSelector
\* computes for it.
TextTwoLines == <<"S","a","v","e","\n","N","o","w">>
TextGo == <<"G","o">>
TextHomeArrow == <<"H","o","m","e"," ","-",">"," ","D","o","c","s">>
PageElement(el, type, placeholder) ==
  [text |-> IF Trim(el.textContent) = <<>> THEN None ELSE Some(Trim(el.textContent)),
   type |-> type, placeholder |-> placeholder, selector |-> getSelector(el)]
ButtonElements ==
  {PageElement(Element(TagButton, TestIdSave, <<>>, <<>>, TRUE, TextGo), None, None),
   PageElement(Element(TagButton, <<>>, <<>>, <<>>, TRUE, TextTwoLines), None, None),
   PageElement(Element(TagButton, <<>>, IdSave, <<>>, TRUE, <<>>), None, None)}
LinkElements ==
  {PageElement(Element(TagA, <<>>, <<>>, <<>>, TRUE, TextHomeArrow), None, None),
   PageElement(Element(TagA, <<>>, <<>>, ClassTwo, TRUE, TextGo), None, None)}
InputElements ==
  {PageElement(Element(TagDiv, <<>>, IdSave, <<>>, TRUE, <<>>), Some(<<"e","m","a","i","l">>), Some(<<"y","o","u","@","e","x","a","m","p","l","e",".","c","o","m">>)),
   PageElement(Element(TagDiv, <<>>, <<>>, <<>>, TRUE, <<>>), None, None)}
FormDicts ==
  {[id |-> Some(<<"l","o","g","i","n">>),
    inputs |-> <<[type |-> Some(<<"p","a","s","s","w","o","r","d">>), name |-> Some(<<"p","w">>), placeholder |-> None,
                  selector |-> <<"#","p","w">>]>>,
    buttons |-> <<[text |-> <<"S","i","g","n"," ","i","n">>, selector |-> <<"#","s","i","g","n","i","n">>]>>]}

\* The PageAnalysis values handed to the formatter.
Analyses ==
  {[url |-> UrlExample, title |-> <<"E","x","a","m","p","l","e">>, meta_description |-> m,
    forms |-> f, buttons |-> b, inputs |-> i, navigation |-> n,
    page_structure |-> <<"{","}">>] :
     m \in {None, Some(<<"A","b","o","u","t"," ","u","s">>)},
     f \in SeqsUpTo(FormDicts, 1),
     b \in SeqsUpTo(ButtonElements, MaxElements),
     i \in SeqsUpTo(InputElements, 1),
     n \in SeqsUpTo(LinkElements, 1)}

FormatInit ==
  /\ RunIdle
  /\ test_results = {} /\ task = "none" /\ status = "" /\ runs = <<>>
  /\ \E a \in Analyses : call = [fn |-> "format_for_prompt", analysis |-> a]
  /\ ret = None

FormatCall ==
  /\ call.fn = "format_for_prompt" /\ IsNone(ret)
  /\ ret' = Some(format_for_prompt(call.analysis))
  /\ UNCHANGED <<wf_vars, pc, returned, x_vars, open_sessions, trace, exec_count,
                 heal_count, last_heal, faults, test_results, task, status, runs,
                 call>>

FormatSpec == FormatInit /\ [][FormatCall]_vars

\* The selectors the formatter writes for an analysis, in the order of the
\* text.
SelectorsWritten(analysis) ==
  LET sel(q) == [k \in 1..Len(q) |-> q[k].selector]
      texted(q, cap) == SelectSeq(Take(q, cap), LAMBDA e : Truthy(e.text))
  IN Concat([i \in 1..Len(analysis.forms) |->
               sel(Take(analysis.forms[i].inputs, 5))
               \o sel(Take(analysis.forms[i].buttons, 2))])
     \o sel(texted(analysis.buttons, 10))
     \o (IF analysis.forms = <<>> THEN sel(Take(analysis.inputs, 10)) ELSE <<>>)
     \o sel(texted(analysis.navigation, 8))

\* The positions of the marker in a line.
ArrowsIn(line) ==
  {k \in 1..(Len(line) - Len(Arrow) + 1) : SubSeq(line, k, k + Len(Arrow) - 1) = Arrow}
Maximum(S) == CHOOSE x \in S : \A y \in S : y <= x
\* Re-parsing a text for its selectors: of every line with a marker, what
\* follows the last marker of the line.
Reparse(text) ==
  LET marked == SelectSeq(SplitOn(text, "\n"), LAMBDA l : ArrowsIn(l) # {})
  IN [k \in 1..Len(marked) |->
        SubSeq(marked[k], Maximum(ArrowsIn(marked[k])) + Len(Arrow), Len(marked[k]))]

\* C30: every selector the formatter writes stands verbatim after its
\* marker, so that re-parsing the text for selectors gives back every
\* selector of the analysis unchanged.
C30_SelectorsRoundTrip ==
  (call.fn = "format_for_prompt" /\ ~IsNone(ret)) =>
    Reparse(Get(ret)) = SelectorsWritten(call.analysis)

\* The part of C30 that holds: every selector written is in the text,
\* character for character, right after a marker.
SelectorsWrittenVerbatim ==
  (call.fn = "format_for_prompt" /\ ~IsNone(ret)) =>
    \A k \in 1..Len(SelectorsWritten(call.analysis)) :
      Contains(Get(ret), Arrow \o SelectorsWritten(call.analysis)[k])

(* -------------------- TestExecutionAgent.execute_step ------------------ *)
\* Lines 166-181: the page primitive of each action; the chain of elif has
\* no branch for "assert".
PagePrimitive(action) ==
  CASE action = "navigate" -> "goto"
    [] action = "click" -> "click"
    [] action = "type" -> "fill"
    [] action = "wait" -> "wait_for_selector"
    [] action = "screenshot" -> "screenshot"
    [] action = "select" -> "select_option"
    [] action = "hover" -> "hover"
    [] action = "scroll" -> "evaluate"
    [] OTHER -> "none"

\* The steps execute_step is given: any action, with and without waits (a
\* wait of 0 is falsy).
StepWaits == {None, Some(0), Some(500)}
ExecutableSteps ==
  {[action |-> a, selector |-> Some(SelSubmit), value |-> Some(ValAlice),
    wait_before |-> wb, wait_after |-> wa] :
     a \in ActionNames, wb \in StepWaits, wa \in StepWaits}

\* `if step.wait_before:` for an Optional[int]
WaitDue(w) == ~IsNone(w) /\ Get(w) # 0

StepInit ==
  /\ RunIdle
  /\ test_results = {} /\ task = "none" /\ status = "" /\ runs = <<>>
  /\ \E st \in ExecutableSteps :
       call = [fn |-> "execute_step", step |-> st, performed |-> <<>>,
               raised |-> None]
  /\ ret = None

\* core.types.StepResult
StepResult(step, success, error) ==
  [step |-> step, success |-> success, error |-> error, duration |-> "float"]

\* execute_step, lines 156-203: the wait before, the primitive of the
\* action, the wait after and the StepResult; an exception of the primitive
\* is caught and reported.
ExecuteStep ==
  /\ call.fn = "execute_step" /\ IsNone(ret)
  /\ LET st == call.step
         before == IF WaitDue(st.wait_before) THEN <<"sleep">> ELSE <<>>
         prim == IF PagePrimitive(st.action) = "none" THEN <<>>
                 ELSE <<PagePrimitive(st.action)>>
         after == IF WaitDue(st.wait_after) THEN <<"sleep">> ELSE <<>>
     IN \/ /\ call' = [call EXCEPT !.performed = before \o prim \o after]
           /\ ret' = Some(<<"return", StepResult(st, TRUE, None)>>)
        \/ /\ prim # <<>>
           /\ \E e \in RuntimeErrors :
                /\ call' = [call EXCEPT !.performed = before \o prim,
                                        !.raised = Some(e)]
                /\ ret' = Some(<<"return", StepResult(st, FALSE, Some(e))>>)
  /\ UNCHANGED <<wf_vars, pc, returned, x_vars, open_sessions, trace, exec_count,
                 heal_count, last_heal, faults, test_results, task, status, runs>>

StepSpec == StepInit /\ [][ExecuteStep]_vars

\* C31: execute_step never raises and returns one StepResult for its step,
\* with success = true and a duration when the waits and the action
\* completed and success = false, the error text and a duration when
\* something failed; it performs the page primitive of the action, for
\* every action of the vocabulary.
C31_StepResultForEveryAction ==
  (call.fn = "execute_step" /\ ~IsNone(ret)) =>
    LET r == Get(ret)[2] IN
    /\ Get(ret)[1] = "return"
    /\ r.step = call.step /\ r.duration = "float"
    /\ r.success <=> IsNone(call.raised)
    /\ ~r.success => r.error = call.raised
    /\ \E k \in 1..Len(call.performed) : call.performed[k] # "sleep"

\* The part of C31 that holds: one StepResult, never an exception, and
\* the outcome of the primitive reported.
StepResultAlwaysReturned ==
  (call.fn = "execute_step" /\ ~IsNone(ret)) =>
    LET r == Get(ret)[2] IN
    /\ Get(ret)[1] = "return"
    /\ r.step = call.step /\ r.duration = "float"
    /\ r.success <=> IsNone(call.raised)
    /\ ~r.success => r.error = call.raised

(* ------------------- counters and results of a run --------------------- *)
\* The number of steps of the plan of the run; a run whose plan state
\* failed has no plan and no steps.
PlanSteps == IF IsNone(plan) THEN 0 ELSE Len(Get(plan).steps)

\* C32: every TestResult held in the workflow state or returned by run has
\* at most as many StepResults as the plan of the run has steps.
C32_StepResultsWithinPlan ==
  \A r \in {result, returned} : ~IsNone(r) => Len(Get(r).steps) <= PlanSteps
C32_Witness ==
  /\ pc = "returned" /\ ~IsNone(plan) /\ ~IsNone(returned) /\ returned = result
  /\ exec_count > 0 /\ Get(returned).id = "result"
  /\ Len(Get(returned).steps) <= Len(Get(plan).steps)

\* C33: the number of completed heal handlers equals retry_count and the
\* number of execute attempts started is at most retry_count + 1; execute
\* runs at most three times, is never entered with retry_count = 3, and the
\* code the third heal returned is stored in the state and never executed.
C33_AttemptsFollowRetryCount ==
  /\ [](heal_count = retry_count)
  /\ [](exec_count <= retry_count + 1)
  /\ [](exec_count <= MaxRetries)
  /\ [](pc = "execute" => retry_count < MaxRetries)
  /\ [][(pc = "heal" /\ heal_count = MaxRetries - 1)
          => (generated_code' = last_heal'.healed_code /\ pc' = "end")]_vars
  /\ [][heal_count = MaxRetries
          => (exec_count' = exec_count /\ generated_code' = generated_code)]_vars
C33_Witness ==
  /\ pc = "returned" /\ heal_count = MaxRetries /\ retry_count = MaxRetries
  /\ exec_count = MaxRetries /\ last_heal.called
  /\ generated_code = last_heal.healed_code

\* The categories of ValidationAgent._categorize_error, and a text that
\* starts with one of them and ": ".
Categories == {KeywordOrder[i][2] : i \in 1..Len(KeywordOrder)} \cup {CatDefault}
HasCategoryPrefix(e) == \E cat \in Categories : StartsWith(e, cat \o ColonSpace)

\* C34: validate is entered only with a result whose success is true; a
\* failed TestResult returned by run has not been through validate: its
\* error text has no category prefix and its passed and failed counts are
\* the defaults.
C34_FailedResultNotValidated ==
  /\ pc = "validate" => (~IsNone(result) /\ Get(result).success)
  /\ (pc = "returned" /\ ~Get(returned).success) =>
       /\ ~Entered("validate")
       /\ Truthy(Get(returned).error) => ~HasCategoryPrefix(Get(Get(returned).error))
       /\ Get(returned).passed_assertions = 0
       /\ Get(returned).failed_assertions = 0
C34_Witness ==
  /\ pc = "returned" /\ ~Get(returned).success /\ ~Entered("validate")
  /\ Get(returned).error = Some(TxtTimeoutUpper)
  /\ _categorize_error(TxtTimeoutUpper) = CatTimeout
  /\ heal_count = MaxRetries

\* The results the most recent call of execute can have produced, from the
\* locals it left: that of the outer except when an exception reached it,
\* else that of the normal path, with or without a recording.
LastAttemptResults ==
  IF ~IsNone(x_exc)
    THEN {ExceptResult(Get(request), x_screenshots, Get(x_exc))}
    ELSE {NormalResult(Get(request), x_success, x_error, x_screenshots, v) :
            v \in {None, Some("recording")}}
\* The most recent call of execute passed: the test code did, and no
\* exception reached the outer except.
LastAttemptSucceeded == x_success /\ IsNone(x_exc)

\* C35: run returns the result of the most recent execute attempt,
\* augmented by validate when that attempt succeeded: every attempt
\* replaces the result of the state, heal keeps it, and success = true is
\* returned only if the last attempt succeeded.
C35_LastAttemptIsReturned ==
  /\ [][ExecuteProduces => (~IsNone(result') /\ Get(result') \in LastAttemptResults')]_vars
  /\ [][pc = "heal" => result' = result]_vars
  /\ [](pc = "returned" =>
          /\ returned = result
          /\ IF Entered("validate")
               THEN /\ LastAttemptSucceeded
                    /\ \E r \in LastAttemptResults, a \in AnalysisOutcomes :
                         Get(returned) = validate(r, a)
               ELSE Get(returned) \in LastAttemptResults
          /\ Get(returned).success => LastAttemptSucceeded)
\* A first attempt failed, the healed code passed, and the passing result
\* was returned.
C35_Witness ==
  /\ pc = "returned" /\ exec_count >= 2 /\ heal_count >= 1
  /\ Get(returned).success /\ LastAttemptSucceeded /\ IsNone(Get(returned).error)

(* ------------------------- remote sessions ----------------------------- *)
\* A step that starts a call of execute, and a call whose create_session
\* raised.
ExecuteStarts == exec_count' = exec_count + 1
CreateSessionRaised == x_raised # <<>> /\ x_raised[1].stage = "create_session"

\* C36 as stated: execute creates a remote session exactly when it is
\* called without a session id, the id is not written back to the state,
\* no session is closed, and a run started without a session id ends with
\* one open session per execute attempt.
C36_SessionPerAttempt ==
  /\ [][ExecuteStarts =>
          IF IsNone(session_id)
            THEN /\ open_sessions' = open_sessions + 1
                 /\ x_session_id' = Some(Sid("browserbase", open_sessions'))
            ELSE /\ open_sessions' = open_sessions
                 /\ x_session_id' = session_id]_vars
  /\ [][pc # "init" => session_id' = session_id]_vars
  /\ [][open_sessions' >= open_sessions]_vars
  /\ []((Finished /\ IsNone(session_id)) => open_sessions = exec_count)

\* C36, amended: a call without a session id asks for a new session and has
\* one unless create_session raised; a call with an id creates none; the id
\* is not written back, no session is closed, and a run started without a
\* session id ends with one open session per execute attempt whose
\* create_session returned.
C36_SessionPerCreatedAttempt ==
  /\ [][ExecuteStarts =>
          IF IsNone(session_id)
            THEN \/ /\ open_sessions' = open_sessions + 1
                    /\ x_session_id' = Some(Sid("browserbase", open_sessions'))
                    /\ ~CreateSessionRaised'
                 \/ /\ open_sessions' = open_sessions
                    /\ CreateSessionRaised'
            ELSE /\ open_sessions' = open_sessions
                 /\ x_session_id' = session_id]_vars
  /\ [][pc # "init" => session_id' = session_id]_vars
  /\ [][open_sessions' >= open_sessions]_vars
  /\ []((Finished /\ IsNone(session_id)) =>
          /\ open_sessions <= exec_count
          /\ open_sessions >= exec_count - faults
          /\ faults = 0 => open_sessions = exec_count)
  /\ []((Finished /\ ~IsNone(session_id)) => open_sessions = 0)
\* A run without a session id made three attempts and left three sessions
\* open.
C36_Witness ==
  /\ pc = "returned" /\ IsNone(session_id)
  /\ exec_count = MaxRetries /\ open_sessions = MaxRetries
  /\ x_session_id = Some(Sid("browserbase", MaxRetries))

(* ---------------- the result store and the status lookup --------------- *)
\* Two submitted requests, with the same session id or with different
\* ones; each awaits workflow.run, which returns a TestResult (its id,
\* result_<time>, is the run's own) or raises.
StoreSids == {Sid("caller", 1), Sid("caller", 2)}
RunOutcomes(r) ==
  {<<"return", [NormalResult([url |-> UrlExample, session_id |-> None], ok,
                             IF ok THEN None ELSE Some(TxtBoom), <<>>, None)
                  EXCEPT !.id = <<"result", r>>]>> : ok \in BOOLEAN}
  \cup {<<"raise", TxtValidation>>}

StoreInit ==
  /\ RunIdle
  /\ test_results = {} /\ task = "none" /\ status = ""
  /\ call = NoCall /\ ret = None
  /\ \E sid2 \in StoreSids, o1 \in RunOutcomes(1), o2 \in RunOutcomes(2) :
       runs = [r \in RunIds |->
                 [session_id |-> IF r = 1 THEN Sid("caller", 1) ELSE sid2,
                  outcome |-> IF r = 1 THEN o1 ELSE o2,
                  at |-> "running", order |-> 0]]

StoreUnchanged ==
  UNCHANGED <<wf_vars, pc, returned, x_vars, open_sessions, trace, exec_count,
              heal_count, last_heal, faults, task, ret>>

\* The number of runs that are over.
RunsOver == Cardinality({q \in RunIds : runs[q].at # "running"})

\* execute_test_async (175-193) and run_test_sync (87-91) once workflow.run
\* is over: the result is stored under the session id of the request; when
\* run raised, the error result cannot be built (started_at=None) and
\* nothing is stored.
StoreResult(r) ==
  /\ runs[r].at = "running"
  /\ IF runs[r].outcome[1] = "return"
       THEN /\ test_results' = Store(test_results, runs[r].session_id, runs[r].outcome[2])
            /\ runs' = [runs EXCEPT ![r].at = "stored", ![r].order = RunsOver + 1]
       ELSE IF ValidTestResult(AsyncErrorResult(runs[r].outcome[2]))
         THEN /\ test_results' = Store(test_results, runs[r].session_id,
                                       AsyncErrorResult(runs[r].outcome[2]))
              /\ runs' = [runs EXCEPT ![r].at = "stored", ![r].order = RunsOver + 1]
         ELSE /\ test_results' = test_results
              /\ runs' = [runs EXCEPT ![r].at = "crashed", ![r].order = RunsOver + 1]
  /\ UNCHANGED <<status, call>>
  /\ StoreUnchanged

\* get_test_status (100-113) for any session id.
StatusLookup(sid) ==
  /\ call' = [fn |-> "get_test_status", session_id |-> sid]
  /\ status' = IF \E e \in test_results : e.sid = sid THEN "completed" ELSE "pending"
  /\ UNCHANGED <<test_results, runs>>
  /\ StoreUnchanged

StoreNext ==
  \/ \E r \in RunIds : StoreResult(r)
  \/ \E sid \in StoreSids : StatusLookup(sid)
StoreSpec == StoreInit /\ [][StoreNext]_vars

\* A run has stored a result under sid; the run that did so last.
StoredBy(sid) == {r \in RunIds : runs[r].session_id = sid /\ runs[r].at = "stored"}
LastStoredBy(sid) ==
  CHOOSE r \in StoredBy(sid) : \A q \in StoredBy(sid) : runs[q].order <= runs[r].order

\* C37: the status lookup for a session id answers 'pending' until a
\* result has been stored under that id and 'completed' from then on; no
\* entry is ever removed; when two runs use the same session id, the entry
\* is the result of the run that finished later.
C37_StatusPendingThenCompleted ==
  /\ [][(call'.fn = "get_test_status" /\ (call' # call \/ status' # status)) =>
          status' = (IF StoredBy(call'.session_id) # {} THEN "completed"
                     ELSE "pending")]_vars
  /\ [][\A e \in test_results : \E f \in test_results' : f.sid = e.sid]_vars
  /\ [](\A e, f \in test_results : e.sid = f.sid => e = f)
  /\ [](\A sid \in StoreSids :
          StoredBy(sid) # {} =>
            [sid |-> sid, result |-> runs[LastStoredBy(sid)].outcome[2]] \in test_results)
\* Both runs used one session id; run 2 finished first and run 1 later, the
\* entry is the result of run 1, and the lookup answers 'completed'.
C37_Witness ==
  /\ runs # <<>> /\ call.fn = "get_test_status"
  /\ runs[1].session_id = runs[2].session_id
  /\ runs[1].at = "stored" /\ runs[2].at = "stored"
  /\ runs[2].order = 1 /\ runs[1].order = 2
  /\ test_results = {[sid |-> runs[1].session_id, result |-> runs[1].outcome[2]]}
  /\ call.session_id = runs[1].session_id /\ status = "completed"

(* ------------------------- partial updates ----------------------------- *)
\* s is t, or t with entries appended.
IsPrefix(t, s) == Len(t) <= Len(s) /\ SubSeq(s, 1, Len(t)) = t

\* C38: a handler only makes a partial update: request and session_id are
\* never changed, plan is changed by the plan handler only, heal changes
\* only generated_code, retry_count and current_step (on failure only
\* errors and current_step) and leaves result unchanged, and errors only
\* grows by appending.
C38_HandlersUpdatePartially ==
  (call.fn = "handler" /\ ~IsNone(ret) /\ Get(ret)[1] = "return") =>
    LET st == call.state
        out == Get(ret)[2]
    IN /\ out.request = st.request /\ out.session_id = st.session_id
       /\ call.node # "plan" => out.plan = st.plan
       /\ call.node = "heal" =>
            /\ out.result = st.result
            /\ IF call.outcome[1] = "return"
                 THEN out = [st EXCEPT !.generated_code = out.generated_code,
                                       !.retry_count = out.retry_count,
                                       !.current_step = out.current_step]
                 ELSE out = [st EXCEPT !.errors = out.errors,
                                       !.current_step = out.current_step]
       /\ IsPrefix(st.errors, out.errors)
       /\ Len(out.errors) <= Len(st.errors) + 1
\* The heal handler failed on a state that had an error and a result: the
\* text was appended and the result kept.
C38_Witness ==
  /\ call.fn = "handler" /\ ~IsNone(ret) /\ Get(ret)[1] = "return"
  /\ call.node = "heal" /\ call.outcome[1] = "raise"
  /\ call.state.errors = <<TxtBoom>> /\ ~IsNone(call.state.result)
  /\ Get(ret)[2].errors = <<TxtBoom, TxtNoneName>>
  /\ Get(ret)[2].result = call.state.result
  /\ Get(ret)[2].generated_code = call.state.generated_code

\* The same frame along a run: the request and the session id are those
\* run was called with, the plan is set in the plan state only, heal keeps
\* result and errors, and errors only grows.
RunFrame ==
  /\ [][pc # "init" => (request' = request /\ session_id' = session_id)]_vars
  /\ [][pc \notin {"init", "plan"} => plan' = plan]_vars
  /\ [][pc = "heal" => (result' = result /\ errors' = errors)]_vars
  /\ [][IsPrefix(errors, errors')]_vars

(* ------------------------------ plan_id -------------------------------- *)
\* The plan_id the result of the state should carry: the session id of the
\* request, or "unknown" when the request has none.
SessionPlanId ==
  IF Get(request).session_id = None THEN Sid("unknown", 0)
  ELSE Get(request).session_id[1]

\* C39: the plan_id of every TestResult produced by execute is the session
\* id of the request, or "unknown" when the request has none, on the normal
\* and on the exception path; it is never the id of the TestPlan of the run.
C39_PlanIdIsSessionId ==
  /\ [][ExecuteProduces =>
          /\ ~IsNone(result')
          /\ Get(result').plan_id = SessionPlanId
          /\ ~IsNone(plan) => Get(result').plan_id # Get(plan).id]_vars
  /\ []((AfterExecute /\ ~IsNone(result)) =>
          /\ Get(result).plan_id = SessionPlanId
          /\ ~IsNone(plan) => Get(result).plan_id # Get(plan).id)
\* execute ended in its outer except in a run that has a plan and a
\* caller's session id, and the result carries the session id.
C39_Witness ==
  /\ AfterExecute /\ ~IsNone(x_exc) /\ ~IsNone(plan) /\ ~IsNone(result)
  /\ Get(request).session_id = Some(Sid("caller", 1))
  /\ Get(result).plan_id = Sid("caller", 1)
  /\ Get(plan).id = Sid("plan", 1)


====
